---- MODULE Spec2Model ----
(***************************************************************************)
(* Renvo agent service: the job lifecycle of a property analysis.          *)
(*                                                                         *)
(* Two entry points create jobs:                                           *)
(*   - app.py (Flask): analyze_property writes a 'processing' template to  *)
(*     Redis and spawns run_orchestrator_in_background in a thread, which  *)
(*     runs OrchestratorAgent.generate_full_report and stores the result;  *)
(*   - routers/reports.py (FastAPI): generate_quick_report computes quick  *)
(*     insights, creates a ReportStatus in ReportService.reports and       *)
(*     schedules ReportService.generate_detailed_report_background.        *)
(* Python dicts are records whose DOMAIN is the dict's key set; None is    *)
(* "none" for a string field and NoneRec for a dict field.                 *)
(***************************************************************************)
EXTENDS Integers, Sequences, FiniteSets, TLC

\* Number of submissions the model follows (each draws a fresh uuid).
MaxJobs == 2

JobIds == 1..MaxJobs
\* A report id no submission ever generated.
UnknownId == 0
PollIds == JobIds \cup {UnknownId}

VARIABLES
    report_storage,   \* app.py:40  "client" or "none" (get_redis_client returned None)
    redis,            \* the Redis keyspace: report id -> stored template (a dict)
    reports,          \* ReportService.reports: report id -> ReportStatus
    nextId,           \* the next fresh uuid, as an index
    path,             \* per job: "idle", "app" (app.py) or "svc" (routers/reports.py)
    payload,          \* per job: the request body as received
    spc,              \* per job: position of the submission handler
    bpc,              \* per job: position of the background unit
    loc,              \* per job: locals of the background unit while it runs
    calls,            \* per job: log of agent process() invocations and raised exceptions
    written,          \* per report id: the whole values handed to store writes, in order
    args,             \* the arguments of a call of an agent operation taken on its own
    result,           \* what that call returned or raised; NotCalled before it
    clock             \* the wall clock now_iso and datetime.now read, in ticks

vars == <<report_storage, redis, reports, nextId, path, payload, spc, bpc, loc,
          calls, written, args, result, clock>>

-----------------------------------------------------------------------------
\* Python values

NoneRec == [none |-> TRUE]
NoRec == [absent |-> TRUE]

\* No call has been made
NotCalled == [kind |-> "not_called"]

\* dict.get(k, default)
Get(d, k, default) == IF k \in DOMAIN d THEN d[k] ELSE default

\* d[k] = v
Put(d, k, v) == [x \in (DOMAIN d) \cup {k} |-> IF x = k THEN v ELSE d[x]]

\* dict.get(id) on a store: None (NoRec) for a missing key
Lookup(st, id) == IF id \in DOMAIN st THEN st[id] ELSE NoRec

-----------------------------------------------------------------------------
\* Request bodies

Addresses == {"", "a1"}
\* "null": JSON null / key with None; "empty": []; "some": a non-empty list of urls
ImageVals == {"null", "empty", "some"}

MalformedBody == [kind |-> "malformed", address |-> "", images |-> "empty"]
NonObjectBody == [kind |-> "nonobject", address |-> "", images |-> "empty"]
ObjectBodies == [kind : {"object"}, address : Addresses, images : ImageVals]
Payloads == ObjectBodies \cup {MalformedBody, NonObjectBody}

\* Python truthiness of an images value and of an address
ImagesTruthy(i) == i = "some"
AddressTruthy(a) == a # ""

\* prop.get("images") or prop.get("imageUrls") or []
ImagesOrEmpty(i) == IF ImagesTruthy(i) THEN i ELSE "empty"

-----------------------------------------------------------------------------
\* Renovation ideas are identified by small numbers; an idea list is a sequence.

IdeaLists == {<< >>, <<1, 2>>}
RefinedLists == {<<2, 1>>}

\* TextAnalysisAgent.process: every exit returns a dict with "renovation_ideas"
\* and "error"; a failure carries an empty list and a message.
TextResults ==
    {[renovation_ideas |-> l, error |-> "none"] : l \in IdeaLists}
    \cup {[renovation_ideas |-> << >>, error |-> "LLM returned invalid JSON"]}

\* ImageAnalysisAgent.process, when its response parses to a JSON object: the
\* object as the service wrote it.
ImageParsed ==
    {[refined_renovation_ideas |-> l, additional_suggestions |-> << >>] : l \in RefinedLists}

\* ImageAnalysisAgent.process, except branch with the idea list dropped
ImageFailureEmpty(renovation_ideas) ==
    [refined_renovation_ideas |-> << >>,
     additional_suggestions |-> << >>,
     error |-> "ImageAnalysisAgent error"]

\* ImageAnalysisAgent.process, except branch: pass the prior ideas through.
ImageFailure(renovation_ideas) ==
    [refined_renovation_ideas |-> Get(renovation_ideas, "renovation_ideas", << >>),
     additional_suggestions |-> << >>,
     error |-> "ImageAnalysisAgent error"]

\* What the vision service does with a request: the call raises, or it answers
\* with a text that is a JSON object ("direct"), a JSON object inside a fenced
\* block ("fenced"), a JSON value that is no object ("nonobject"), a fenced
\* block whose content is no JSON ("badfence"), or none of these ("garbage").
ImageFailureKinds == {"raises", "badfence", "garbage"}
ImageResponses ==
    {[kind |-> k, result |-> p] : k \in {"direct", "fenced"}, p \in ImageParsed}
        \cup {[kind |-> k, result |-> NoneRec] : k \in ImageFailureKinds \cup {"nonobject"}}

\* ImageAnalysisAgent.process(renovation_ideas, image_urls) for a response
ImageProcess(renovation_ideas, response) ==
    CASE response.kind = "raises" -> ImageFailure(renovation_ideas)
      [] response.kind = "direct" -> response.result
      [] response.kind = "nonobject" -> NoneRec
      [] response.kind = "fenced" -> response.result
      [] response.kind = "badfence" -> ImageFailure(renovation_ideas)
      [] OTHER -> ImageFailure(renovation_ideas)

\* What ImageAnalysisAgent.process can return for an input: a parsed object, the
\* pass-through failure value, or (json.loads of a non-object text) a value that
\* is no dict, here NoneRec.
ImageResults(renovation_ideas) ==
    {ImageProcess(renovation_ideas, response) : response \in ImageResponses}

MarketFailureSummary == "Market analysis could not be completed due to a processing error."

\* MarketAnalysisAgent.process(property_data, renovation_ideas): both callers
\* pass the address string as property_data, so property_data.get raises inside
\* the try and the except branch returns this value; the service is not reached.
MarketProcess(address, renovation_ideas) ==
    [market_adjusted_ideas |-> << >>,
     market_summary |-> MarketFailureSummary,
     comparable_properties |-> << >>,
     recommended_contractors |-> << >>,
     error |-> "'str' object has no attribute 'get'"]

\* idea.get("estimated_cost", {}).get("medium", 0) and
\* idea.get("estimated_value_add", {}).get("medium", 0) of an idea
EstimatedCost(i) == i * 1000
EstimatedValueAdd(i) == i * i * 1500

\* sum(... for idea in ideas) of the two
RECURSIVE TotalBudget(_)
TotalBudget(ideas) ==
    IF ideas = << >> THEN 0 ELSE EstimatedCost(Head(ideas)) + TotalBudget(Tail(ideas))

RECURSIVE TotalValue(_)
TotalValue(ideas) ==
    IF ideas = << >> THEN 0 ELSE EstimatedValueAdd(Head(ideas)) + TotalValue(Tail(ideas))

\* OrchestratorAgent._compile_full_report
CompileFullReport(property_data, initial_ideas, refined_ideas, market_adjusted) ==
    LET final_ideas ==
            Get(market_adjusted, "market_adjusted_ideas",
                Get(refined_ideas, "refined_renovation_ideas",
                    Get(initial_ideas, "renovation_ideas", << >>)))
    IN [property |-> property_data,
        detailed_report |->
            [renovation_ideas |-> final_ideas,
             additional_suggestions |-> Get(refined_ideas, "additional_suggestions", << >>),
             comparable_properties |-> Get(market_adjusted, "comparable_properties", << >>),
             recommended_contractors |-> Get(market_adjusted, "recommended_contractors", << >>),
             total_budget |-> TotalBudget(final_ideas),
             potential_value_increase |-> TotalValue(final_ideas)],
        market_summary |-> Get(market_adjusted, "market_summary", "")]

\* An except branch that returns the message alone
ErrorReportBare(property_data, msg) == [error |-> msg, property |-> << >>]

\* generate_full_report, except branch
ErrorReport(property_data, msg) == [error |-> msg, property |-> property_data]


-----------------------------------------------------------------------------
\* app.py: the stored template

EmptyDict == << >>

\* The "property" block both template builders assemble from a property dict.
PropertyBlock(prop) ==
    [address |-> Get(prop, "address", ""),
     images |-> ImagesOrEmpty(Get(prop, "images", "null"))]

EmptyDetailedReport ==
    [renovation_ideas |-> << >>,
     comparable_properties |-> << >>,
     recommended_contractors |-> << >>,
     market_summary |-> "",
     investment_thesis |-> ""]

\* build_template_from_property: the shell for 'processing' and failure
build_template_from_property(report_id, status, prop_payload) ==
    [report_id |-> report_id,
     status |-> status,
     property |-> PropertyBlock(prop_payload),
     detailed_report |-> EmptyDetailedReport]

\* build_template_from_fullreport: reads property_details, renovation_projects,
\* comparable_properties, recommended_contractors, market_summary,
\* investment_thesis and error from the top level of the report it is given.
build_template_from_fullreport(report_id, status, full) ==
    LET body == full
        tmpl ==
            [report_id |-> report_id,
             status |-> status,
             property |-> PropertyBlock(Get(body, "property_details", EmptyDict)),
             detailed_report |->
                 [renovation_ideas |-> Get(body, "renovation_projects", << >>),
                  comparable_properties |-> Get(body, "comparable_properties", << >>),
                  recommended_contractors |-> Get(body, "recommended_contractors", << >>),
                  market_summary |-> Get(body, "market_summary", ""),
                  investment_thesis |-> Get(body, "investment_thesis", "")]]
    IN IF "error" \in DOMAIN body
       THEN Put(tmpl, "error", body["error"])
       ELSE tmpl

\* A store whose set() loses the value
StoreSetDropped(st, key, value) == st

\* A store that rewrites only the status field of a record it already holds
StoreSetStatusOnly(st, key, value) ==
    IF key \in DOMAIN st
    THEN [st EXCEPT ![key].status = value.status]
    ELSE [k \in (DOMAIN st) \cup {key} |-> IF k = key THEN value ELSE st[k]]

\* report_storage.set(key, value) / self.reports[key] = value: the whole value
\* under the key is replaced.
StoreSet(st, key, value) ==
    [k \in (DOMAIN st) \cup {key} |-> IF k = key THEN value ELSE st[k]]

\* A background unit that writes under the most recently generated id
BackgroundKeyLatest(j) == nextId - 1

\* The key a background unit writes: its own report_id argument.
BackgroundKey(j) == j

-----------------------------------------------------------------------------
\* services/report_service.py: the ReportStatus record

\* roi the service reported for an idea: ideas 0 and 1 report the same roi, and
\* so do ideas 2 and 3
Roi(i) == (i \div 2) * 50

\* sorted(ideas, key=roi, reverse=True): stable, equal keys keep list order
RECURSIVE InsertByRoi(_, _)
InsertByRoi(x, s) ==
    IF s = << >> THEN <<x>>
    ELSE IF Roi(Head(s)) >= Roi(x) THEN <<Head(s)>> \o InsertByRoi(x, Tail(s))
    ELSE <<x>> \o s

RECURSIVE SortedByRoi(_)
SortedByRoi(s) ==
    IF s = << >> THEN << >>
    ELSE InsertByRoi(s[Len(s)], SortedByRoi(SubSeq(s, 1, Len(s) - 1)))

TopCount == 3

\* round(n / d, 1) for n >= 0 and d > 0, in tenths: round half to even
RoundTenths(n, d) ==
    LET q == (10 * n) \div d
        r == (10 * n) % d
    IN IF 2 * r < d THEN q
       ELSE IF 2 * r > d THEN q + 1
       ELSE IF q % 2 = 0 THEN q ELSE q + 1

\* A score that is not capped
PotentialScoreUncapped(total_value, total_budget) ==
    IF total_budget > 0 THEN RoundTenths(3 * total_value, total_budget) ELSE 50

\* potential_score = min(10, round((total_value / total_budget) * 3, 1))
\* if total_budget > 0 else 5, in tenths
PotentialScore(total_value, total_budget) ==
    IF total_budget > 0
    THEN LET rounded == RoundTenths(3 * total_value, total_budget)
         IN IF rounded > 100 THEN 100 ELSE rounded
    ELSE 50

\* OrchestratorAgent._format_quick_insights: the top ideas by roi, the sums of
\* their medium cost and medium value-add, and the score; an opportunity is
\* the idea its four fields are read from
FormatQuickInsights(renovation_ideas) ==
    LET sorted_ideas == SortedByRoi(Get(renovation_ideas, "renovation_ideas", << >>))
        n == IF Len(sorted_ideas) < TopCount THEN Len(sorted_ideas) ELSE TopCount
        top_ideas == SubSeq(sorted_ideas, 1, n)
        total_budget == TotalBudget(top_ideas)
        total_value == TotalValue(top_ideas)
    IN [potentialScore |-> PotentialScore(total_value, total_budget),
        estimatedBudget |-> total_budget,
        potentialValueAdd |-> total_value,
        topOpportunities |-> top_ideas]

\* A create_report whose record depends on the reports already held
NewReportStatusBusy(report_id, property_details, quick_insights) ==
    [report_id |-> report_id,
     status |-> "processing",
     progress |-> "none",
     property |-> property_details,
     quick_insights |-> quick_insights,
     detailed_report |-> NoneRec,
     error |-> IF reports = EmptyDict THEN "none" ELSE "busy"]

\* ReportService.create_report: the new ReportStatus
NewReportStatus(report_id, property_details, quick_insights) ==
    [report_id |-> report_id,
     status |-> "processing",
     progress |-> "none",
     property |-> property_details,
     quick_insights |-> quick_insights,
     detailed_report |-> NoneRec,
     error |-> "none"]

\* ReportService.update_report on a found report: status always, the other
\* fields only when the argument is truthy; the assignments run without an
\* await between them.
UpdateReport(report, status, detailed_report, error, progress) ==
    [report EXCEPT
        !.status = status,
        !.detailed_report = IF detailed_report # NoneRec THEN detailed_report ELSE @,
        !.error = IF error # "none" THEN error ELSE @,
        !.progress = IF progress # "none" THEN progress ELSE @]

\* pydantic validation of the request body against models.property.PropertyDetails:
\* every field is optional, images is a list (None is refused).
ValidPropertyDetails(p) == p.kind = "object" /\ p.images # "null"

\* property_details.dict()
PropertyDict(p) == [address |-> p.address, images |-> p.images]

-----------------------------------------------------------------------------
\* Initial state

NoLocals ==
    [initial_ideas |-> NoneRec,
     refined_ideas |-> NoneRec,
     market_adjusted |-> NoneRec,
     full_report |-> NoneRec,
     exc |-> "none"]

Init ==
    /\ report_storage \in {"client", "none"}
    /\ redis = EmptyDict
    /\ reports = EmptyDict
    /\ nextId = 1
    /\ path = [j \in JobIds |-> "idle"]
    /\ payload = [j \in JobIds |-> MalformedBody]
    /\ spc = [j \in JobIds |-> "idle"]
    /\ bpc = [j \in JobIds |-> "none"]
    /\ loc = [j \in JobIds |-> NoLocals]
    /\ calls = [j \in JobIds |-> << >>]
    /\ written = [j \in JobIds |-> << >>]
    /\ args = NoneRec
    /\ result = NotCalled
    /\ clock = 0

\* A process() invocation of a stage, by the unit that made it
Call(stage, phase) == [stage |-> stage, phase |-> phase]

\* An exception raised while the background unit is in a stage
Raise(stage) == [stage |-> stage, phase |-> "raised"]

\* A stage returning to the background unit with count ideas
Yield(stage, count) == [stage |-> stage, phase |-> "returned", count |-> count]


\* The answer of a stage's service to the background unit
Reply(stage, kind) == [stage |-> stage, phase |-> "reply", kind |-> kind]

\* The value a store write is handed, remembered per key
Remember(id, value) == [written EXCEPT ![id] = Append(@, value)]

-----------------------------------------------------------------------------
\* app.py: POST /api/analyze-property

\* analyze_property up to and including the initial store write
AppSubmit(j, p) ==
    /\ j = nextId
    /\ spc[j] = "idle"
    /\ nextId' = nextId + 1
    /\ path' = [path EXCEPT ![j] = "app"]
    /\ payload' = [payload EXCEPT ![j] = p]
    /\ IF report_storage = "none"
       THEN \* 503 before anything else
            /\ spc' = [spc EXCEPT ![j] = "unavailable"]
            /\ UNCHANGED <<redis, written>>
       ELSE IF p.kind = "malformed"
       THEN \* request.get_json raises: 400
            /\ spc' = [spc EXCEPT ![j] = "invalid_json"]
            /\ UNCHANGED <<redis, written>>
       ELSE IF p.kind = "nonobject"
       THEN \* build_template_from_property calls .get on a list: the handler raises
            /\ spc' = [spc EXCEPT ![j] = "crashed"]
            /\ UNCHANGED <<redis, written>>
       ELSE LET initial == build_template_from_property(j, "processing", PropertyDict(p))
            IN /\ redis' = StoreSet(redis, j, initial)
               /\ written' = Remember(j, initial)
               /\ spc' = [spc EXCEPT ![j] = "written"]
    /\ UNCHANGED <<report_storage, reports, bpc, loc, calls>>
    /\ UNCHANGED <<args, result, clock>>

\* A handler that starts the thread whether or not the store was there
AppSpawnUnchecked(j) ==
    /\ path[j] = "app"
    /\ spc[j] \in {"written", "unavailable"}
    /\ spc' = [spc EXCEPT ![j] = "spawned"]
    /\ bpc' = [bpc EXCEPT ![j] = "start"]
    /\ UNCHANGED <<report_storage, redis, reports, nextId, path, payload, loc, calls,
                   written>>
    /\ UNCHANGED <<args, result, clock>>

\* threading.Thread(target=run_orchestrator_in_background, ...).start()
AppSpawn(j) ==
    /\ path[j] = "app"
    /\ spc[j] = "written"
    /\ spc' = [spc EXCEPT ![j] = "spawned"]
    /\ bpc' = [bpc EXCEPT ![j] = "start"]
    /\ UNCHANGED <<report_storage, redis, reports, nextId, path, payload, loc, calls,
                   written>>
    /\ UNCHANGED <<args, result, clock>>

\* A handler that awaits the idea stage before it answers
AppReturnAfterInsights(j) ==
    /\ path[j] = "app"
    /\ spc[j] = "spawned"
    /\ spc' = [spc EXCEPT ![j] = "returned"]
    /\ calls' = [calls EXCEPT ![j] = Append(@, [stage |-> "text", phase |-> "submit"])]
    /\ UNCHANGED <<report_storage, redis, reports, nextId, path, payload, bpc, loc,
                   written>>
    /\ UNCHANGED <<args, result, clock>>

\* return jsonify({"reportId": report_id})
AppReturn(j) ==
    /\ path[j] = "app"
    /\ spc[j] = "spawned"
    /\ spc' = [spc EXCEPT ![j] = "returned"]
    /\ UNCHANGED <<report_storage, redis, reports, nextId, path, payload, bpc, loc,
                   calls, written>>
    /\ UNCHANGED <<args, result, clock>>

-----------------------------------------------------------------------------
\* app.py: run_orchestrator_in_background, with generate_full_report inlined

\* orchestrator = OrchestratorAgent(): the call passes no api_key, which
\* OrchestratorAgent.__init__ of agents/orchestrator.py requires (TypeError), and
\* BaseAgent.__init__ raises without GEMINI_API_KEY; both outcomes of the
\* construction are followed.
AppBgConstruct(j) ==
    /\ path[j] = "app"
    /\ bpc[j] = "start"
    /\ \E ok \in BOOLEAN :
          IF ok
          THEN /\ bpc' = [bpc EXCEPT ![j] = "text"]
               /\ UNCHANGED <<loc, calls>>
          ELSE /\ bpc' = [bpc EXCEPT ![j] = "except"]
               /\ loc' = [loc EXCEPT ![j].exc = "GEMINI_API_KEY environment variable not set."]
               /\ calls' = [calls EXCEPT ![j] = Append(@, Raise("construct"))]
    /\ UNCHANGED <<report_storage, redis, reports, nextId, path, payload, spc,
                   written>>
    /\ UNCHANGED <<args, result, clock>>

\* A Step 1 that calls the text agent again when it returned no ideas
OrchTextRetried(j) ==
    /\ path[j] = "app"
    /\ bpc[j] = "text"
    /\ \E r \in TextResults :
          /\ loc' = [loc EXCEPT ![j].initial_ideas = r]
          /\ calls' = [calls EXCEPT ![j] =
                          @ \o <<Call("text", "background"),
                                 Yield("text", Len(r.renovation_ideas))>>]
          /\ bpc' = [bpc EXCEPT ![j] =
                        IF r.renovation_ideas = << >> /\ calls[j] = << >>
                        THEN "text" ELSE "image"]
    /\ UNCHANGED <<report_storage, redis, reports, nextId, path, payload, spc,
                   written>>
    /\ UNCHANGED <<args, result, clock>>

\* Step 1: initial_ideas = await self.text_agent.process(property_data)
OrchText(j) ==
    /\ path[j] = "app"
    /\ bpc[j] = "text"
    /\ \E r \in TextResults :
          /\ loc' = [loc EXCEPT ![j].initial_ideas = r]
          /\ calls' = [calls EXCEPT ![j] =
                          @ \o <<Call("text", "background"),
                                 Yield("text", Len(r.renovation_ideas))>>]
    /\ bpc' = [bpc EXCEPT ![j] = "image"]
    /\ UNCHANGED <<report_storage, redis, reports, nextId, path, payload, spc,
                   written>>
    /\ UNCHANGED <<args, result, clock>>

\* "refined_ideas = initial_ideas" followed by the in-place addition of
\* refined_renovation_ideas: both names hold the same dict.
SkipImage(initial_ideas) ==
    IF "renovation_ideas" \in DOMAIN initial_ideas
          /\ "refined_renovation_ideas" \notin DOMAIN initial_ideas
    THEN Put(initial_ideas, "refined_renovation_ideas", initial_ideas["renovation_ideas"])
    ELSE initial_ideas

\* "market_adjusted = refined_ideas" followed by the in-place addition of
\* market_adjusted_ideas.
SkipMarket(refined_ideas) ==
    IF "refined_renovation_ideas" \in DOMAIN refined_ideas
          /\ "market_adjusted_ideas" \notin DOMAIN refined_ideas
    THEN Put(refined_ideas, "market_adjusted_ideas", refined_ideas["refined_renovation_ideas"])
    ELSE refined_ideas

\* Step 2: image review, or its skip. An exception here is absorbed by
\* generate_full_report's except branch, which returns the error report.
OrchImage(j) ==
    /\ path[j] = "app"
    /\ bpc[j] = "image"
    /\ LET property_data == PropertyDict(payload[j])
           image_urls == property_data.images
       IN IF image_urls = "null"
          THEN \* len(None) raises TypeError
               /\ loc' = [loc EXCEPT ![j].full_report =
                              ErrorReport(property_data, "object of type 'NoneType' has no len()")]
               /\ bpc' = [bpc EXCEPT ![j] = "store"]
               /\ calls' = [calls EXCEPT ![j] = Append(@, Raise("image"))]
          ELSE IF ImagesTruthy(image_urls)
          THEN \E response \in ImageResponses :
                  LET r == ImageProcess(loc[j].initial_ideas, response)
                  IN IF r = NoneRec
                     THEN \* refined_ideas.keys() on a value that is no dict
                          /\ loc' = [loc EXCEPT ![j].full_report =
                                         ErrorReport(property_data, "object has no attribute 'keys'")]
                          /\ bpc' = [bpc EXCEPT ![j] = "store"]
                          /\ calls' = [calls EXCEPT ![j] =
                                          @ \o <<Call("image", "background"),
                                                 Reply("image", response.kind),
                                                 Raise("image")>>]
                     ELSE /\ loc' = [loc EXCEPT ![j].refined_ideas = r]
                          /\ bpc' = [bpc EXCEPT ![j] = "market"]
                          /\ calls' = [calls EXCEPT ![j] =
                                          @ \o <<Call("image", "background"),
                                                 Reply("image", response.kind)>>]
          ELSE LET d == SkipImage(loc[j].initial_ideas)
               IN /\ loc' = [loc EXCEPT ![j].initial_ideas = d, ![j].refined_ideas = d]
                  /\ bpc' = [bpc EXCEPT ![j] = "market"]
                  /\ calls' = calls
    /\ UNCHANGED <<report_storage, redis, reports, nextId, path, payload, spc,
                   written>>
    /\ UNCHANGED <<args, result, clock>>

\* Step 3 and Step 4: market adjustment or its skip, then
\* full_report = self._compile_full_report(...)
OrchMarket(j) ==
    /\ path[j] = "app"
    /\ bpc[j] = "market"
    /\ LET property_data == PropertyDict(payload[j])
           address == property_data.address
           aliased == ~ImagesTruthy(property_data.images)
           refined == IF AddressTruthy(address) THEN loc[j].refined_ideas
                      ELSE SkipMarket(loc[j].refined_ideas)
           initial == IF ~AddressTruthy(address) /\ aliased THEN refined
                      ELSE loc[j].initial_ideas
           market_adjusted == IF AddressTruthy(address)
                              THEN MarketProcess(address, loc[j].refined_ideas)
                              ELSE refined
       IN /\ loc' = [loc EXCEPT
                        ![j].initial_ideas = initial,
                        ![j].refined_ideas = refined,
                        ![j].market_adjusted = market_adjusted,
                        ![j].full_report =
                            CompileFullReport(property_data, initial, refined, market_adjusted)]
          /\ calls' = IF AddressTruthy(address)
                      THEN [calls EXCEPT ![j] = Append(@, Call("market", "background"))]
                      ELSE calls
    /\ bpc' = [bpc EXCEPT ![j] = "store"]
    /\ UNCHANGED <<report_storage, redis, reports, nextId, path, payload, spc,
                   written>>
    /\ UNCHANGED <<args, result, clock>>

\* generate_full_report returned: store the 'complete' template
AppBgStoreComplete(j) ==
    /\ path[j] = "app"
    /\ bpc[j] = "store"
    /\ LET template_payload ==
               build_template_from_fullreport(BackgroundKey(j), "complete", loc[j].full_report)
       IN /\ redis' = StoreSet(redis, BackgroundKey(j), template_payload)
          /\ written' = Remember(BackgroundKey(j), template_payload)
    /\ bpc' = [bpc EXCEPT ![j] = "done"]
    /\ loc' = [loc EXCEPT ![j] = NoLocals]
    /\ UNCHANGED <<report_storage, reports, nextId, path, payload, spc, calls>>
    /\ UNCHANGED <<args, result, clock>>

\* except Exception: store the 'failed' shell built from the submitted property
AppBgExcept(j) ==
    /\ path[j] = "app"
    /\ bpc[j] = "except"
    /\ LET fail_payload ==
               Put(build_template_from_property(BackgroundKey(j), "failed",
                                                PropertyDict(payload[j])),
                   "error", loc[j].exc)
       IN /\ redis' = StoreSet(redis, BackgroundKey(j), fail_payload)
          /\ written' = Remember(BackgroundKey(j), fail_payload)
    /\ bpc' = [bpc EXCEPT ![j] = "done"]
    /\ loc' = [loc EXCEPT ![j] = NoLocals]
    /\ UNCHANGED <<report_storage, reports, nextId, path, payload, spc, calls>>
    /\ UNCHANGED <<args, result, clock>>


-----------------------------------------------------------------------------
\* routers/reports.py: POST /quickreport

\* The request body is validated into PropertyDetails before the handler runs;
\* the handler then awaits generate_quick_insights.
SvcSubmit(j, p) ==
    /\ j = nextId
    /\ spc[j] = "idle"
    /\ nextId' = nextId + 1
    /\ path' = [path EXCEPT ![j] = "svc"]
    /\ payload' = [payload EXCEPT ![j] = p]
    /\ spc' = [spc EXCEPT ![j] = IF ValidPropertyDetails(p) THEN "quick" ELSE "unprocessable"]
    /\ UNCHANGED <<report_storage, redis, reports, bpc, loc, calls, written>>
    /\ UNCHANGED <<args, result, clock>>

\* quick_insights = await report_service.generate_quick_insights(...), then
\* await report_service.create_report(...); an exception in either leaves the
\* handler through its except branch (HTTP 500).
SvcQuickInsights(j) ==
    /\ path[j] = "svc"
    /\ spc[j] = "quick"
    /\ calls' = [calls EXCEPT ![j] = Append(@, Call("text", "submit"))]
    /\ \E r \in TextResults, ok \in BOOLEAN :
          IF ok
          THEN LET report == NewReportStatus(j, PropertyDict(payload[j]),
                                             FormatQuickInsights(r))
               IN /\ reports' = StoreSet(reports, j, report)
                  /\ written' = Remember(j, report)
                  /\ spc' = [spc EXCEPT ![j] = "created"]
          ELSE /\ spc' = [spc EXCEPT ![j] = "error500"]
               /\ UNCHANGED <<reports, written>>
    /\ UNCHANGED <<report_storage, redis, nextId, path, payload, bpc, loc>>
    /\ UNCHANGED <<args, result, clock>>

\* background_tasks.add_task(...) and the response; the task runs after it
SvcRespond(j) ==
    /\ path[j] = "svc"
    /\ spc[j] = "created"
    /\ spc' = [spc EXCEPT ![j] = "returned"]
    /\ bpc' = [bpc EXCEPT ![j] = "start"]
    /\ UNCHANGED <<report_storage, redis, reports, nextId, path, payload, loc, calls,
                   written>>
    /\ UNCHANGED <<args, result, clock>>

-----------------------------------------------------------------------------
\* services/report_service.py: generate_detailed_report_background

\* One update_report call of the background task on its own report
SvcUpdate(j, status, detailed_report, error, progress) ==
    LET report == Lookup(reports, BackgroundKey(j))
        updated == UpdateReport(report, status, detailed_report, error, progress)
    IN IF report = NoRec
       THEN UNCHANGED <<reports, written>>
       ELSE /\ reports' = StoreSet(reports, BackgroundKey(j), updated)
            /\ written' = Remember(BackgroundKey(j), updated)

\* The two progress updates before the text agent is awaited; no await
\* between them suspends, so no other task runs in between.
SvcBgBegin(j) ==
    /\ path[j] = "svc"
    /\ bpc[j] = "start"
    /\ LET report == Lookup(reports, BackgroundKey(j))
           first == UpdateReport(report, "processing", NoneRec, "none",
                                 "Analyzing property data...")
           second == UpdateReport(first, "processing", NoneRec, "none",
                                  "Generating initial renovation ideas...")
       IN IF report = NoRec
          THEN UNCHANGED <<reports, written>>
          ELSE /\ reports' = StoreSet(StoreSet(reports, BackgroundKey(j), first),
                                      BackgroundKey(j), second)
               /\ written' = [written EXCEPT ![BackgroundKey(j)] = @ \o <<first, second>>]
    /\ bpc' = [bpc EXCEPT ![j] = "text"]
    /\ UNCHANGED <<report_storage, redis, nextId, path, payload, spc, loc, calls>>
    /\ UNCHANGED <<args, result, clock>>

\* Step 1 returns; progress moves to the image step
SvcBgText(j) ==
    /\ path[j] = "svc"
    /\ bpc[j] = "text"
    /\ \E r \in TextResults :
          /\ loc' = [loc EXCEPT ![j].initial_ideas = r]
          /\ calls' = [calls EXCEPT ![j] =
                          @ \o <<Call("text", "background"),
                                 Yield("text", Len(r.renovation_ideas))>>]
    /\ SvcUpdate(j, "processing", NoneRec, "none",
                 "Analyzing images (if any) and refining ideas...")
    /\ bpc' = [bpc EXCEPT ![j] = "image"]
    /\ UNCHANGED <<report_storage, redis, nextId, path, payload, spc>>
    /\ UNCHANGED <<args, result, clock>>

\* Step 2: image review or its skip; progress moves to the market step
SvcBgImage(j) ==
    /\ path[j] = "svc"
    /\ bpc[j] = "image"
    /\ IF ImagesTruthy(payload[j].images)
       THEN \E response \in ImageResponses :
               LET r == ImageProcess(loc[j].initial_ideas, response)
               IN IF r = NoneRec
                  THEN \* refined_ideas.keys() on a value that is no dict
                       /\ loc' = [loc EXCEPT ![j].exc = "object has no attribute 'keys'"]
                       /\ bpc' = [bpc EXCEPT ![j] = "except"]
                       /\ calls' = [calls EXCEPT ![j] =
                                       @ \o <<Call("image", "background"),
                                              Reply("image", response.kind),
                                              Raise("image")>>]
                       /\ UNCHANGED <<reports, written>>
                  ELSE /\ loc' = [loc EXCEPT ![j].refined_ideas = r]
                       /\ bpc' = [bpc EXCEPT ![j] = "market"]
                       /\ calls' = [calls EXCEPT ![j] =
                                       @ \o <<Call("image", "background"),
                                              Reply("image", response.kind)>>]
                       /\ SvcUpdate(j, "processing", NoneRec, "none",
                                    "Analyzing market conditions...")
       ELSE LET d == SkipImage(loc[j].initial_ideas)
            IN /\ loc' = [loc EXCEPT ![j].initial_ideas = d, ![j].refined_ideas = d]
               /\ bpc' = [bpc EXCEPT ![j] = "market"]
               /\ calls' = calls
               /\ SvcUpdate(j, "processing", NoneRec, "none",
                            "Analyzing market conditions...")
    /\ UNCHANGED <<report_storage, redis, nextId, path, payload, spc>>
    /\ UNCHANGED <<args, result, clock>>

\* Step 3 and Step 4: market adjustment or its skip, then the compilation
SvcBgMarket(j) ==
    /\ path[j] = "svc"
    /\ bpc[j] = "market"
    /\ LET property_dict == PropertyDict(payload[j])
           address == payload[j].address
           aliased == ~ImagesTruthy(payload[j].images)
           refined == IF AddressTruthy(address) THEN loc[j].refined_ideas
                      ELSE SkipMarket(loc[j].refined_ideas)
           initial == IF ~AddressTruthy(address) /\ aliased THEN refined
                      ELSE loc[j].initial_ideas
           market_adjusted == IF AddressTruthy(address)
                              THEN MarketProcess(address, loc[j].refined_ideas)
                              ELSE refined
       IN /\ loc' = [loc EXCEPT
                        ![j].initial_ideas = initial,
                        ![j].refined_ideas = refined,
                        ![j].market_adjusted = market_adjusted,
                        ![j].full_report =
                            CompileFullReport(property_dict, initial, refined, market_adjusted)]
          /\ calls' = IF AddressTruthy(address)
                      THEN [calls EXCEPT ![j] = Append(@, Call("market", "background"))]
                      ELSE calls
    /\ bpc' = [bpc EXCEPT ![j] = "finish"]
    /\ UNCHANGED <<report_storage, redis, reports, nextId, path, payload, spc,
                   written>>
    /\ UNCHANGED <<args, result, clock>>

\* update_report(status="completed", detailed_report=full_report, ...)
SvcBgFinish(j) ==
    /\ path[j] = "svc"
    /\ bpc[j] = "finish"
    /\ SvcUpdate(j, "completed", loc[j].full_report, "none", "Report generated successfully.")
    /\ bpc' = [bpc EXCEPT ![j] = "done"]
    /\ loc' = [loc EXCEPT ![j] = NoLocals]
    /\ UNCHANGED <<report_storage, redis, nextId, path, payload, spc, calls>>
    /\ UNCHANGED <<args, result, clock>>

\* except Exception: update_report(status="failed", error=str(e), ...)
SvcBgExcept(j) ==
    /\ path[j] = "svc"
    /\ bpc[j] = "except"
    /\ SvcUpdate(j, "failed", NoneRec, loc[j].exc, "Failed to generate report.")
    /\ bpc' = [bpc EXCEPT ![j] = "done"]
    /\ loc' = [loc EXCEPT ![j] = NoLocals]
    /\ UNCHANGED <<report_storage, redis, nextId, path, payload, spc, calls>>
    /\ UNCHANGED <<args, result, clock>>

-----------------------------------------------------------------------------
\* Status polling

\* A request without the reportId parameter
MissingId == -1

\* A status handler that reads the record without the missing-key check
report_status_unchecked(id) ==
    IF report_storage = "none" THEN "unavailable"
    ELSE IF id = MissingId THEN "reportId required"
    ELSE Get(Lookup(redis, id), "status", "unknown")

\* app.py: GET /api/report/status
report_status(id) ==
    IF report_storage = "none" THEN "unavailable"
    ELSE IF id = MissingId THEN "reportId required"
    ELSE IF Lookup(redis, id) = NoRec THEN "not_found"
    ELSE Get(Lookup(redis, id), "status", "unknown")

\* The handler only reads: its response is report_status(id).
AppPoll(id) ==
    /\ report_status(id) \in STRING
    /\ UNCHANGED vars

\* ReportService.get_report: self.reports.get(report_id)
get_report(id) == Lookup(reports, id)

\* routers/reports.py: GET /report/{report_id}: 404 when get_report gives None,
\* else a page chosen by report.status
report_page(id) ==
    IF get_report(id) = NoRec THEN "not_found" ELSE get_report(id).status

\* The handler only reads: its response is report_page(id).
SvcPoll(id) ==
    /\ report_page(id) \in STRING
    /\ UNCHANGED vars

-----------------------------------------------------------------------------

JobStep(j) ==
    \/ \E p \in Payloads : AppSubmit(j, p)
    \/ \E p \in Payloads : SvcSubmit(j, p)
    \/ AppSpawn(j)
    \/ AppReturn(j)
    \/ SvcQuickInsights(j)
    \/ SvcRespond(j)

BackgroundStep(j) ==
    \/ AppBgConstruct(j)
    \/ OrchText(j)
    \/ OrchImage(j)
    \/ OrchMarket(j)
    \/ AppBgStoreComplete(j)
    \/ AppBgExcept(j)
    \/ SvcBgBegin(j)
    \/ SvcBgText(j)
    \/ SvcBgImage(j)
    \/ SvcBgMarket(j)
    \/ SvcBgFinish(j)
    \/ SvcBgExcept(j)

PollStep ==
    \/ \E id \in PollIds \cup {MissingId} : AppPoll(id)
    \/ \E id \in PollIds : SvcPoll(id)

Next ==
    \/ \E j \in JobIds : JobStep(j)
    \/ \E j \in JobIds : BackgroundStep(j)
    \/ PollStep

Spec == Init /\ [][Next]_vars

\* Threads and event-loop tasks that can run do run: each background unit and
\* each submission handler keeps being scheduled.
FairSpec ==
    /\ Spec
    /\ \A j \in JobIds : WF_vars(BackgroundStep(j))
    /\ \A j \in JobIds : WF_vars(AppSpawn(j) \/ AppReturn(j) \/ SvcQuickInsights(j) \/ SvcRespond(j))

-----------------------------------------------------------------------------
\* What the properties below read

\* The store a job's record lives in, the record and its status
StoreOf(j) == IF path[j] = "svc" THEN reports ELSE redis
Entry(j) == Lookup(StoreOf(j), j)
StatusOf(j) == IF Entry(j) = NoRec THEN "absent" ELSE Entry(j).status

Last(s) == s[Len(s)]
Range(s) == {s[i] : i \in 1..Len(s)}

\* An exception was raised during job j's background run
Raised(j) == \E i \in 1..Len(calls[j]) : calls[j][i].phase = "raised"

\* The idea stage of job j's background run returned no ideas
EmptyIdeas(j) == \E i \in 1..Len(calls[j]) : calls[j][i] = Yield("text", 0)

\* Stage s was invoked for job j
Invoked(j, s) ==
    \E i \in 1..Len(calls[j]) :
        calls[j][i].stage = s /\ calls[j][i].phase \in {"submit", "background"}

\* The record of job j carries an error message
HasError(j) ==
    IF path[j] = "svc" THEN Entry(j).error # "none" ELSE "error" \in DOMAIN Entry(j)

\* The record of job j carries the property fields as submitted
KeepsProperty(j) ==
    IF path[j] = "svc"
    THEN Entry(j).property = PropertyDict(payload[j])
    ELSE Entry(j).property = PropertyBlock(PropertyDict(payload[j]))

-----------------------------------------------------------------------------
\* C1: for every job id, the stored status changes only processing -> complete
\* or processing -> failed; once complete or failed is stored, no later write
\* stores a different status.
C1_StatusMonotonic ==
    [][\A j \in JobIds :
          StatusOf(j)' # StatusOf(j) =>
              \/ StatusOf(j) = "absent" /\ StatusOf(j)' = "processing"
              \/ StatusOf(j) = "processing" /\ StatusOf(j)' \in {"complete", "failed"}]_vars

\* What does hold of the status: it leaves processing once, for one of the three
\* strings the two write paths use, and never changes again.
StatusNeverReopened ==
    [][\A j \in JobIds :
          StatusOf(j)' # StatusOf(j) =>
              \/ StatusOf(j) = "absent" /\ StatusOf(j)' = "processing"
              \/ /\ StatusOf(j) = "processing"
                 /\ StatusOf(j)' = IF path[j] = "svc" THEN "completed" ELSE "complete"
              \/ StatusOf(j) = "processing" /\ StatusOf(j)' = "failed"]_vars

\* C2: every job whose initial processing record was written eventually has
\* the terminal status complete or failed stored under its id, the background
\* unit being scheduled fairly.
C2_EventuallyTerminal ==
    \A j \in JobIds :
        (Entry(j) # NoRec) ~> (StatusOf(j) \in {"complete", "failed"})

\* What does hold: the status eventually leaves processing.
EventuallySettled ==
    \A j \in JobIds :
        (Entry(j) # NoRec) ~> (StatusOf(j) \in {"complete", "completed", "failed"})

C4_EmptyIdeasFailEarly ==
    \A j \in JobIds :
        EmptyIdeas(j) =>
            /\ ~Invoked(j, "image")
            /\ ~Invoked(j, "market")
            /\ bpc[j] = "done" => StatusOf(j) = "failed"

\* What a poller of job j's own service is answered
PollOf(j) == IF path[j] = "svc" THEN report_page(j) ELSE report_status(j)

\* C5: the submission writes the initial processing record before the
\* background unit is started and before the job id is returned; every write
\* of the background unit comes after it, and a poller that holds the job id
\* is never answered not-found.
C5_RecordBeforeStartAndReturn ==
    \A j \in JobIds :
        (bpc[j] # "none" \/ spc[j] = "returned") =>
            /\ written[j] # << >>
            /\ written[j][1].status = "processing"
            /\ Entry(j) # NoRec
            /\ PollOf(j) # "not_found"

C5_Witness ==
    \E j, k \in JobIds :
        /\ path[j] = "app" /\ spc[j] = "returned" /\ bpc[j] = "done"
        /\ Len(written[j]) = 2 /\ PollOf(j) = "failed"
        /\ path[k] = "svc" /\ spc[k] = "returned" /\ bpc[k] = "text"
        /\ PollOf(k) = "processing"

\* The calls job j's submission handler made
SubmitCalls(j) == SelectSeq(calls[j], LAMBDA c : c.phase = "submit")

C7_ReaderSeesWholeWrite ==
    \A id \in JobIds :
        /\ Lookup(redis, id) \in {NoRec} \cup Range(written[id])
        /\ get_report(id) \in {NoRec} \cup Range(written[id])
        /\ Entry(id) # NoRec => Entry(id) = Last(written[id])
        /\ PollOf(id) = "completed" => get_report(id).detailed_report # NoneRec

C7_Witness ==
    \E j, k \in JobIds :
        /\ path[j] = "app" /\ bpc[j] = "done" /\ PollOf(j) = "complete"
        /\ Len(written[j]) = 2 /\ written[j][1] # written[j][2]
        /\ path[k] = "svc" /\ bpc[k] = "done" /\ PollOf(k) = "completed"
        /\ Len(written[k]) > 2

\* C8: with several jobs in flight, the store entry of a job id changes only
\* in a step of the submission that created it or of its own background
\* unit, and a step belongs to one job.
C8_OnlyOwnJobWrites ==
    [][/\ \A j \in JobIds :
             (Lookup(redis, j)' # Lookup(redis, j) \/ get_report(j)' # get_report(j)) =>
                 (spc[j]' # spc[j] \/ bpc[j]' # bpc[j])
       /\ \A j, k \in JobIds :
             ((spc[j]' # spc[j] \/ bpc[j]' # bpc[j])
                 /\ (spc[k]' # spc[k] \/ bpc[k]' # bpc[k])) => j = k]_vars

C8_Witness ==
    \E j, k \in JobIds :
        /\ j # k
        /\ bpc[j] = "done" /\ Len(written[j]) >= 2
        /\ bpc[k] \in {"text", "image", "market"} /\ Entry(k) # NoRec
        /\ StatusOf(k) = "processing"

\* No record was ever written under the id in the store of app.py / of the
\* report service
NeverCreatedApp(id) == id \notin JobIds \/ path[id] # "app" \/ written[id] = << >>
NeverCreatedSvc(id) == id \notin JobIds \/ path[id] # "svc" \/ written[id] = << >>

\* C9 as stated: polling an id that was never created returns not-found.
C9_UnknownIdNotFound ==
    \A id \in PollIds :
        /\ NeverCreatedApp(id) => report_status(id) = "not_found"
        /\ NeverCreatedSvc(id) => report_page(id) = "not_found"

\* C9, amended: polling an id that was never created returns not-found when the
\* store is available and the storage-unavailable error when app.py has no
\* store; it returns one of these and nothing else.
C9_UnknownIdPoll ==
    \A id \in PollIds :
        /\ NeverCreatedApp(id) =>
              report_status(id) =
                  IF report_storage = "none" THEN "unavailable" ELSE "not_found"
        /\ NeverCreatedSvc(id) => report_page(id) = "not_found"

C9_Witness ==
    \E j, k \in JobIds :
        /\ report_storage = "client"
        /\ path[j] = "app" /\ spc[j] = "invalid_json" /\ report_status(j) = "not_found"
        /\ path[k] = "app" /\ bpc[k] = "done" /\ report_status(k) = "complete"
        /\ report_status(UnknownId) = "not_found"
        /\ report_page(k) = "not_found"

\* The body is malformed or lacks the address
Rejectable(p) == p.kind # "object" \/ p.address = ""

\* C10: a submission whose payload is malformed or lacks the required
\* property fields is rejected: no job record is written and no background
\* unit is started.
C10_BadPayloadRejected ==
    \A j \in JobIds :
        (path[j] # "idle" /\ Rejectable(payload[j])) =>
            (written[j] = << >> /\ bpc[j] = "none")

-----------------------------------------------------------------------------
\* Image review (C11, C12)

\* The submitted property of job j carries no image reference
NoImageRefs(j) == path[j] # "idle" /\ ~ImagesTruthy(payload[j].images)

\* The idea list idea generation produced for job j's background run
TextIdeas(j) == loc[j].initial_ideas.renovation_ideas

\* The image step of job j produced a result holding a list of ideas
HandsOver(j) == "refined_renovation_ideas" \in DOMAIN loc[j].refined_ideas

\* The ideas the image step hands to the next stage
HandedIdeas(j) == loc[j].refined_ideas.refined_renovation_ideas

\* Job j's background run has just left the image step: either it goes on to
\* the market step or the step raised.
ImageStepOver(j) ==
    \/ bpc[j] = "market"
    \/ bpc[j] \in {"store", "except"} /\ calls[j] # << >> /\ Last(calls[j]) = Raise("image")

EmptyImagesPassThrough ==
    \A j \in JobIds :
        (path[j] # "idle" /\ payload[j].images = "empty" /\ ImageStepOver(j)) =>
            (~Invoked(j, "image") /\ HandsOver(j) /\ HandedIdeas(j) = TextIdeas(j))

\* The image step of job j failed inside ImageAnalysisAgent.process
ImageFailedInside(j) ==
    \E i \in 1..Len(calls[j]) : \E k \in ImageFailureKinds : calls[j][i] = Reply("image", k)

\* C12: when the image-review stage fails internally (the service call raises,
\* or its response cannot be parsed as JSON directly or from a fenced block),
\* its result is the prior stage's idea list passed through unchanged plus an
\* error reason, and the job does not end in failed status because of it.
C12_ImageFailurePassThrough ==
    \A j \in JobIds :
        ImageFailedInside(j) =>
            /\ bpc[j] = "market" =>
                  /\ HandsOver(j)
                  /\ HandedIdeas(j) = TextIdeas(j)
                  /\ "error" \in DOMAIN loc[j].refined_ideas
            /\ StatusOf(j) # "failed"

\* The image step failed inside with two generated ideas at hand
C12_Witness ==
    \E j \in JobIds :
        /\ ImageFailedInside(j)
        /\ bpc[j] = "market"
        /\ TextIdeas(j) = <<1, 2>>

-----------------------------------------------------------------------------
\* Comparable-property search (C13)

\* The comp-search invocations of job j's background run, in order
CompRunsOf(j) == SelectSeq(calls[j], LAMBDA e : e.stage = "comp")

\* Job j's background run went through its stages and stored its report
PipelineCompleted(j) == StatusOf(j) \in {"complete", "completed"}

\* C13: comparable-property search is first run in strict mode; expanded mode
\* is run if and only if the strict run returned zero comps, at most once per
\* job and never before the strict run; the comps kept are those of the last
\* non-empty run.
C13_StrictThenExpanded ==
    \A j \in JobIds :
        PipelineCompleted(j) =>
            LET runs == CompRunsOf(j)
            IN /\ Len(runs) \in {1, 2}
               /\ runs[1].mode = "strict"
               /\ (Len(runs) = 2) <=> (runs[1].count = 0)
               /\ (Len(runs) = 2) => (runs[2].mode = "expanded")

-----------------------------------------------------------------------------
\* financial_agent.py: Python values and the parsing helpers

\* Python values: None, an int, a non-negative float printed as whole.frac, a
\* str as its sequence of characters, and a list.
PyNone == [t |-> "none"]
PyInt(n) == [t |-> "int", v |-> n]
PyFloat(whole, frac) == [t |-> "float", whole |-> whole, frac |-> frac]
PyStr(chars) == [t |-> "str", s |-> chars]
PyList(items) == [t |-> "list", items |-> items]

DigitChars == <<"0", "1", "2", "3", "4", "5", "6", "7", "8", "9">>
IsDigit(c) == \E i \in 1..10 : DigitChars[i] = c
DigitValue(c) == (CHOOSE i \in 1..10 : DigitChars[i] = c) - 1
AllDigits(s) == \A i \in 1..Len(s) : IsDigit(s[i])

\* The decimal digits of an int, as str() prints them
RECURSIVE DigitsOf(_)
DigitsOf(n) ==
    IF n < 0 THEN <<"-">> \o DigitsOf(-n)
    ELSE IF n < 10 THEN <<DigitChars[n + 1]>>
    ELSE Append(DigitsOf(n \div 10), DigitChars[(n % 10) + 1])

\* int() of a sequence of digits
RECURSIVE NumberOf(_)
NumberOf(ds) ==
    IF ds = << >> THEN 0
    ELSE 10 * NumberOf(SubSeq(ds, 1, Len(ds) - 1)) + DigitValue(ds[Len(ds)])

\* str(value)
Str(value) ==
    CASE value.t = "int" -> DigitsOf(value.v)
      [] value.t = "float" -> DigitsOf(value.whole) \o <<".">> \o value.frac
      [] value.t = "str" -> value.s
      [] OTHER -> <<"N", "o", "n", "e">>

\* bool(value)
Truthy(value) ==
    CASE value.t = "int" -> value.v # 0
      [] value.t = "float" -> value.whole # 0 \/ ~(\A i \in 1..Len(value.frac) : value.frac[i] = "0")
      [] value.t = "str" -> value.s # << >>
      [] value.t = "list" -> value.items # << >>
      [] OTHER -> FALSE

\* a or b
Or(a, b) == IF Truthy(a) THEN a ELSE b

\* A float result is kept exact, as a fraction <<numerator, denominator>> in
\* lowest terms with a positive denominator.
RECURSIVE Gcd(_, _)
Gcd(a, b) == IF b = 0 THEN a ELSE Gcd(b, a % b)
Abs(x) == IF x < 0 THEN -x ELSE x
Frac(n, d) == IF n = 0 THEN <<0, 1>> ELSE <<n \div Gcd(Abs(n), d), d \div Gcd(Abs(n), d)>>
FracAdd(x, y) == Frac(x[1] * y[2] + y[1] * x[2], x[2] * y[2])
FracMul(x, y) == Frac(x[1] * y[1], x[2] * y[2])
FracDiv(x, y) == Frac(x[1] * y[2], x[2] * y[1])
FracPos(x) == x[1] > 0
RECURSIVE Pow10(_)
Pow10(k) == IF k = 0 THEN 1 ELSE 10 * Pow10(k - 1)

\* int(round(x)) for x >= 0: round half to even
RoundFrac(x) ==
    LET q == x[1] \div x[2]
        r == x[1] % x[2]
    IN IF 2 * r < x[2] THEN q
       ELSE IF 2 * r > x[2] THEN q + 1
       ELSE IF q % 2 = 0 THEN q ELSE q + 1

\* safe_parse_int(value): drop every character that is no digit and no minus
\* sign, then int(); 0 for None, for nothing left and for a ValueError.
safe_parse_int(value) ==
    IF value = PyNone THEN 0
    ELSE LET cleaned == SelectSeq(Str(value), LAMBDA c : IsDigit(c) \/ c = "-")
         IN IF cleaned = << >> THEN 0
            ELSE IF AllDigits(cleaned) THEN NumberOf(cleaned)
            ELSE IF cleaned[1] = "-" /\ Len(cleaned) > 1 /\ AllDigits(Tail(cleaned))
                 THEN -NumberOf(Tail(cleaned))
            ELSE 0

\* safe_parse_float(value): drop every character that is no digit, no point
\* and no minus sign, then float(); 0.0 for None, for "", ".", "-", "-." and
\* for a ValueError.
safe_parse_float(value) ==
    IF value = PyNone THEN <<0, 1>>
    ELSE LET cleaned == SelectSeq(Str(value), LAMBDA c : IsDigit(c) \/ c = "." \/ c = "-")
             negative == cleaned # << >> /\ cleaned[1] = "-"
             body == IF negative THEN Tail(cleaned) ELSE cleaned
             points == {i \in 1..Len(body) : body[i] = "."}
             digits == SelectSeq(body, IsDigit)
             place == IF points = {} THEN 0
                      ELSE Len(body) - (CHOOSE i \in points : TRUE)
             wellFormed == /\ digits # << >>
                           /\ Cardinality(points) <= 1
                           /\ \A i \in 1..Len(body) : body[i] # "-"
         IN IF ~wellFormed THEN <<0, 1>>
            ELSE Frac((IF negative THEN -1 ELSE 1) * NumberOf(digits), Pow10(place))

\* get_field(obj, *names): the first named field that is present and not None
get_field(obj, names) ==
    LET present == SelectSeq(names, LAMBDA n : n \in DOMAIN obj /\ obj[n] # PyNone)
    IN IF present = << >> THEN PyNone ELSE obj[present[1]]

-----------------------------------------------------------------------------
\* financial_agent.py: the pricing waterfall

\* A date string of a price-history event is known by its form and by the age
\* in days of the moment it names. "date_only" is YYYY-MM-DD, which
\* datetime.fromisoformat reads as a datetime without zone; "zoned" is a full
\* ISO timestamp ending in Z or an offset, read as a datetime with zone;
\* "fallback" is a text fromisoformat refuses whose first ten characters are a
\* date, read by strptime and given the UTC zone; "bad" is read by neither.
NoDate == [form |-> "none", age |-> 0]
DateForms == {"date_only", "zoned", "fallback", "bad"}
Unparsed == [parsed |-> FALSE, aware |-> FALSE, age |-> 0]
ParseDate(date) ==
    CASE date.form = "date_only" -> [parsed |-> TRUE, aware |-> FALSE, age |-> date.age]
      [] date.form = "zoned" -> [parsed |-> TRUE, aware |-> TRUE, age |-> date.age]
      [] date.form = "fallback" -> [parsed |-> TRUE, aware |-> TRUE, age |-> date.age]
      [] OTHER -> Unparsed

\* timedelta(days=365)
YearDays == 365

\* (ev.get("event") or "").lower()
Lower(event) == IF event = "Sold" THEN "sold" ELSE IF event = "none" THEN "" ELSE event

\* The loop of _recent_sale_within_year over events[i..]: latest is the
\* parsed date kept so far (Unparsed for None), price its price. Comparing a
\* datetime without zone to one with zone raises TypeError.
RECURSIVE ScanSales(_, _, _, _)
ScanSales(events, i, latest, price) ==
    IF i > Len(events) THEN [raised |-> FALSE, latest |-> latest, price |-> price]
    ELSE LET ev == events[i]
             ev_date == ParseDate(ev.date)
         IN IF Lower(ev.event) # "sold" THEN ScanSales(events, i + 1, latest, price)
            ELSE IF ev.date = NoDate THEN ScanSales(events, i + 1, latest, price)
            ELSE IF ~ev_date.parsed THEN ScanSales(events, i + 1, latest, price)
            ELSE IF ~latest.parsed
                 THEN ScanSales(events, i + 1, ev_date, safe_parse_int(ev.price))
            ELSE IF ev_date.aware # latest.aware
                 THEN [raised |-> TRUE, latest |-> latest, price |-> price]
            ELSE IF ev_date.age < latest.age
                 THEN ScanSales(events, i + 1, ev_date, safe_parse_int(ev.price))
            ELSE ScanSales(events, i + 1, latest, price)

\* FinancialAnalysisAgent._recent_sale_within_year(property_data)
_recent_sale_within_year(property_data) ==
    LET history == get_field(property_data, <<"priceHistory">>)
        events == IF Truthy(history) THEN history.items ELSE << >>
        scan == ScanSales(events, 1, Unparsed, 0)
    IN IF scan.raised THEN 0
       ELSE IF ~scan.latest.parsed THEN 0
       ELSE IF ~scan.latest.aware THEN 0
       ELSE IF scan.latest.age < YearDays /\ scan.price > 0 THEN scan.price
       ELSE 0

\* One pass of the loop of _avg_ppsf_from_comps: the value a comp adds to
\* ppsf_vals, or <<0, 1>> when it adds none.
CompPpsf(item) ==
    LET v == Or(Or(Get(item, "price_per_sqft", PyNone), Get(item, "ppsf", PyNone)),
                Get(item, "pricePerSqft", PyNone))
        p == safe_parse_float(v)
        price == safe_parse_float(Or(Or(Get(item, "sale_price", PyNone),
                                        Get(item, "price", PyNone)),
                                     Get(item, "list_price", PyNone)))
        sqft == safe_parse_int(Or(Or(Get(item, "sqft", PyNone),
                                     Get(item, "livingArea", PyNone)),
                                  Get(item, "livableSqft", PyNone)))
    IN IF FracPos(p) THEN p
       ELSE IF FracPos(price) /\ sqft > 0 THEN FracDiv(price, <<sqft, 1>>)
       ELSE <<0, 1>>

RECURSIVE FracSum(_)
FracSum(s) == IF s = << >> THEN <<0, 1>> ELSE FracAdd(s[1], FracSum(Tail(s)))

\* FinancialAnalysisAgent._avg_ppsf_from_comps(comps)
_avg_ppsf_from_comps(comps) ==
    LET ppsf_vals == SelectSeq([i \in 1..Len(comps) |-> CompPpsf(comps[i])], FracPos)
    IN IF ppsf_vals # << >>
       THEN FracDiv(FracSum(ppsf_vals), <<Len(ppsf_vals), 1>>)
       ELSE <<0, 1>>

SqftNames == <<"sqft", "livingArea", "livableSqft", "interiorSqft", "totalLivableArea", "floorArea">>
PpsfNames == <<"estimatePerSqft", "pricePerSqft", "estPpsf">>

\* FinancialAnalysisAgent._determine_property_value(property_data, comps)
_determine_property_value(property_data, comps) ==
    LET list_price == safe_parse_int(get_field(property_data, <<"price">>))
        recent_sale == _recent_sale_within_year(property_data)
        redfin_estimate == safe_parse_int(get_field(property_data, <<"estimate">>))
        subject_sqft == safe_parse_int(get_field(property_data, SqftNames))
        avg_ppsf == _avg_ppsf_from_comps(comps)
        ppsf_fallback == safe_parse_float(get_field(property_data, PpsfNames))
    IN IF list_price > 0 THEN list_price
       ELSE IF recent_sale > 0 THEN recent_sale
       ELSE IF redfin_estimate > 0 THEN redfin_estimate
       ELSE IF subject_sqft > 0 /\ FracPos(avg_ppsf)
            THEN RoundFrac(FracMul(<<subject_sqft, 1>>, avg_ppsf))
       ELSE IF subject_sqft > 0 /\ FracPos(ppsf_fallback)
            THEN RoundFrac(FracMul(<<subject_sqft, 1>>, ppsf_fallback))
       ELSE 0

-----------------------------------------------------------------------------
\* financial_agent.py: reading the response and pricing the ideas

\* What a call gives back: a value, or an exception that leaves it
Returns(value) == [kind |-> "returned", value |-> value]
Throws(exc) == [kind |-> "raised", exc |-> exc]

\* A response text is known by what _extract_json_list finds in it: whether it
\* is empty, where the candidate comes from ("fenced": a fenced block holding a
\* bracketed text; "span": from the first opening to the last closing bracket;
\* "none": neither), whether json.loads accepts the candidate ("valid"), accepts
\* it once trailing commas are removed ("fixable") or refuses it ("broken"), and
\* the data it then yields: a list of items or one object.
NoText == [empty |-> TRUE, candidate |-> "none", json |-> "broken", data |-> PyNone]

\* FinancialAnalysisAgent._extract_json_list(text)
_extract_json_list(text) ==
    IF text.empty THEN Returns(<< >>)
    ELSE IF text.candidate = "none" THEN Returns(<< >>)
    ELSE IF text.json = "broken" THEN Throws("JSONDecodeError")
    ELSE IF text.data.t = "dict" THEN Returns(<<text.data>>)
    ELSE IF text.data.t = "list" THEN Returns(text.data.items)
    ELSE Returns(<< >>)

\* A dict holding the three bands; {} holds none
Band(low, medium, high) == [t |-> "dict", low |-> low, medium |-> medium, high |-> high]
EmptyBand == [t |-> "dict"]

\* x or y where x may be a dict: a dict with keys is true, {} and None are not
OrDict(x, y) == IF x.t = "dict" THEN (IF DOMAIN x # {"t"} THEN x ELSE y) ELSE Or(x, y)

\* float(value): the number, or a TypeError/ValueError
FloatOf(value) ==
    CASE value.t = "int" -> [ok |-> TRUE, val |-> <<value.v, 1>>]
      [] value.t = "float" -> [ok |-> TRUE, val |-> safe_parse_float(value)]
      [] value.t = "str" ->
            [ok |-> /\ \A i \in 1..Len(value.s) : (IsDigit(value.s[i]) \/ value.s[i] = ".")
                    /\ Cardinality({i \in 1..Len(value.s) : value.s[i] = "."}) <= 1
                    /\ \E i \in 1..Len(value.s) : IsDigit(value.s[i]),
             val |-> safe_parse_float(value)]
      [] OTHER -> [ok |-> FALSE, val |-> <<0, 1>>]

\* max(0.0, round((value_add - cost) / float(cost) * 100.0, 2)) for cost > 0
PercentRoi(value_add, cost) ==
    IF value_add <= cost THEN <<0, 1>>
    ELSE Frac(RoundFrac(Frac((value_add - cost) * 10000, cost)), 100)

\* FinancialAnalysisAgent._normalize_item(item, property_value, sqft)
_normalize_item(item, property_value, sqft) ==
    IF item.t # "dict" THEN Throws("AttributeError")
    ELSE
    LET cost_raw == OrDict(OrDict(Get(item, "estimated_cost", PyNone),
                                  Get(item, "estimatedCost", PyNone)), EmptyBand)
        value_raw == OrDict(OrDict(Get(item, "estimated_value_add", PyNone),
                                   Get(item, "estimatedValueAdd", PyNone)), EmptyBand)
    IN IF cost_raw.t # "dict" \/ value_raw.t # "dict" THEN Throws("AttributeError")
       ELSE
       LET cost == [low |-> safe_parse_int(Get(cost_raw, "low", PyNone)),
                    medium |-> safe_parse_int(Get(cost_raw, "medium", PyNone)),
                    high |-> safe_parse_int(Get(cost_raw, "high", PyNone))]
           value_add == [low |-> safe_parse_int(Get(value_raw, "low", PyNone)),
                         medium |-> safe_parse_int(Get(value_raw, "medium", PyNone)),
                         high |-> safe_parse_int(Get(value_raw, "high", PyNone))]
           roi_medium == FloatOf(Get(item, "roi", PyNone))
           roi == IF roi_medium.ok THEN roi_medium.val
                  ELSE IF cost.medium > 0 THEN PercentRoi(value_add.medium, cost.medium)
                  ELSE <<0, 1>>
           arv == (IF property_value > 0 THEN property_value ELSE 0) + value_add.medium
       IN Returns([name |-> Get(item, "name", PyNone),
                   estimated_cost |-> cost,
                   estimated_value_add |-> value_add,
                   roi |-> roi,
                   after_repair_value |-> arv,
                   adjusted_roi |-> roi,
                   new_total_sqft |-> sqft])

\* The loop of process over raw_items: an item whose normalisation raises is
\* skipped.
RECURSIVE Projects(_, _, _)
Projects(raw_items, property_value, sqft) ==
    IF raw_items = << >> THEN << >>
    ELSE LET data == _normalize_item(raw_items[1], property_value, sqft)
             rest == Projects(Tail(raw_items), property_value, sqft)
         IN IF data.kind = "returned" THEN <<data.value>> \o rest ELSE rest

\* FinancialAnalysisAgent.process(property_data, renovation_ideas, comps) when
\* the language model answers with reply: it raises, or it gives a text.
FinancialProcess(property_data, renovation_ideas, comps, reply) ==
    LET property_value == _determine_property_value(property_data, comps)
        response_text == IF reply.raises THEN NoText ELSE reply.text
        raw_items == _extract_json_list(response_text)
        sqft == safe_parse_int(get_field(property_data, SqftNames))
    IN IF property_value <= 0 THEN Returns(<< >>)
       ELSE IF raw_items.kind = "raised" THEN raw_items
       ELSE Returns(Projects(raw_items.value, property_value, sqft))

-----------------------------------------------------------------------------
\* The stage adapters taken on their own

\* TextAnalysisAgent.process for a reply of the language model: the call
\* raises, or the text is a JSON object ("direct"), a fenced JSON object
\* ("fenced"), a brace-delimited or fenced text that is no JSON
\* ("direct_broken", "fenced_broken") or none of these ("prose").
TextReplyKinds == {"raises", "direct", "fenced", "direct_broken", "fenced_broken", "prose"}
TextProcess(reply) ==
    CASE reply.kind \in {"direct", "fenced"} ->
            Returns([renovation_ideas |-> reply.ideas, error |-> "none"])
      [] reply.kind \in {"direct_broken", "fenced_broken"} ->
            Returns([renovation_ideas |-> << >>, error |-> "LLM returned invalid JSON"])
      [] reply.kind = "prose" ->
            Returns([renovation_ideas |-> << >>,
                     error |-> "LLM did not return valid JSON or markdown JSON"])
      [] OTHER ->
            Returns([renovation_ideas |-> << >>, error |-> "General TextAgent error"])

\* CompAnalysisAgent.process(address, search_mode): the structured call and
\* response.dict(), with no handler around them.
CompProcess(address, search_mode, reply) ==
    IF reply.raises THEN Throws("structured_llm.ainvoke")
    ELSE Returns([comparable_properties |-> reply.found])

\* ContractorSearchAgent.process(project_name, address): the same shape.
ContractorProcess(project_name, address, reply) ==
    IF reply.raises THEN Throws("structured_llm.ainvoke")
    ELSE Returns([recommended_contractors |-> reply.found])

\* Comps as the agents hand them around
CompDirect == [price_per_sqft |-> PyInt(450)]
CompDerived == [price |-> PyInt(500000), sqft |-> PyInt(1000)]
CompModel == [sale_price |-> PyFloat(1200000, <<"0">>), price_per_sqft |-> PyFloat(600, <<"0">>)]
CompZeroDirect == [price_per_sqft |-> PyInt(0), sale_price |-> PyInt(700000), sqft |-> PyInt(2000)]
CompBare == [address |-> PyStr(<<"x">>)]
CompNoSqft == [price |-> PyInt(500000)]
CompFloatSqft == [price |-> PyInt(500000), sqft |-> PyFloat(1000, <<"0">>)]
Comps ==
    {CompDirect, CompDerived, CompModel, CompZeroDirect, CompBare, CompNoSqft, CompFloatSqft}
CompLists == {<< >>} \cup {<<c>> : c \in Comps} \cup {<<c, d>> : c, d \in Comps}

\* Contractors as the search hands them back
Contractor(name) == [name |-> PyStr(<<name>>), specialty |-> PyStr(<<"k">>)]
ContractorLists == {<< >>, <<Contractor("a")>>, <<Contractor("a"), Contractor("b")>>}

\* Replies of the structured search calls
SearchReplies(found) ==
    {[raises |-> TRUE, found |-> << >>]} \cup {[raises |-> FALSE, found |-> f] : f \in found}

\* Price-history events
SaleAges == {40, 400}
Event(event, form, age, price) ==
    [event |-> event, date |-> [form |-> form, age |-> age], price |-> PyInt(price)]
SoldRecent(form) == Event("sold", form, 40, 480000)
SoldOld(form) == Event("Sold", form, 400, 390000)

\* Property records: raw dicts and PropertyDetails instances alike are read
\* through get_field.
DollarString == <<"$", "5", "0", "0", ",", "0", "0", "0", ".", "0", "0">>
PriceValues == {PyNone, PyInt(0), PyInt(500000), PyFloat(500000, <<"0">>), PyStr(DollarString)}
Histories ==
    {PyNone, PyList(<<SoldRecent("zoned")>>), PyList(<<SoldRecent("date_only")>>),
     PyList(<<SoldOld("zoned"), Event("listed", "zoned", 40, 510000)>>)}
Estimates == {PyNone, PyInt(450000)}
Sqfts == {PyNone, PyInt(2000)}
PlatformPpsfs == {PyNone, PyFloat(300, <<"5">>)}
Properties ==
    [price : PriceValues, priceHistory : Histories, estimate : Estimates,
     sqft : Sqfts, estimatePerSqft : PlatformPpsfs]

\* A property no tier can price, and one with a list price
Unpriced ==
    [price |-> PyNone, priceHistory |-> PyNone, estimate |-> PyNone, sqft |-> PyNone,
     estimatePerSqft |-> PyNone]
Listed == [Unpriced EXCEPT !.price = PyInt(500000), !.sqft = PyInt(2000)]

\* Items of a financial response
Item(name, cost, value_add, roi) ==
    [t |-> "dict", name |-> name, estimated_cost |-> cost,
     estimated_value_add |-> value_add, roi |-> roi]
Items ==
    {Item(1, Band(PyInt(10000), PyInt(20000), PyInt(30000)),
             Band(PyInt(20000), PyInt(50000), PyInt(60000)), PyInt(12)),
     Item(2, Band(PyInt(10000), PyInt(20000), PyInt(30000)),
             Band(PyInt(20000), PyInt(50000), PyInt(60000)), PyNone),
     Item(3, PyInt(20000), PyInt(50000), PyNone),
     PyInt(7)}
ItemLists == {<< >>} \cup {<<i>> : i \in Items} \cup {<<i, k>> : i, k \in Items}

\* Replies of the language model to the financial prompt
TextOf(candidate, json, data) ==
    [empty |-> FALSE, candidate |-> candidate, json |-> json, data |-> data]
FinancialTexts ==
    {NoText, TextOf("none", "broken", PyNone)}
        \cup {TextOf(c, j, PyList(l)) : c \in {"fenced", "span"}, j \in {"valid", "fixable"},
                                        l \in ItemLists}
        \cup {TextOf(c, "valid", i) : c \in {"fenced", "span"}, i \in Items \ {PyInt(7)}}
        \cup {TextOf(c, "broken", PyNone) : c \in {"fenced", "span"}}
FinancialReplies ==
    {[raises |-> TRUE, text |-> NoText]} \cup {[raises |-> FALSE, text |-> t] : t \in FinancialTexts}

\* The calls of the adapters' process operations
AdapterOps == {"idea", "comp", "contractor", "financial"}
AdapterCalls ==
    {[op |-> "idea", reply |-> [kind |-> k, ideas |-> l]] : k \in TextReplyKinds, l \in IdeaLists}
        \cup {[op |-> "comp", address |-> a, search_mode |-> m, reply |-> r] :
                 a \in Addresses, m \in {"strict", "expanded"}, r \in SearchReplies(CompLists)}
        \cup {[op |-> "contractor", project_name |-> n, address |-> a, reply |-> r] :
                 n \in {1, 2}, a \in Addresses, r \in SearchReplies(ContractorLists)}
        \cup {[op |-> "financial", property_data |-> p, renovation_ideas |-> <<1, 2>>,
               comps |-> << >>, reply |-> r] :
                 p \in {Unpriced, Listed}, r \in FinancialReplies}

\* The job model at rest while one call is looked at
JobsIdle ==
    /\ report_storage = "none"
    /\ redis = EmptyDict
    /\ reports = EmptyDict
    /\ nextId = 1
    /\ path = [j \in JobIds |-> "idle"]
    /\ payload = [j \in JobIds |-> MalformedBody]
    /\ spc = [j \in JobIds |-> "idle"]
    /\ bpc = [j \in JobIds |-> "none"]
    /\ loc = [j \in JobIds |-> NoLocals]
    /\ calls = [j \in JobIds |-> << >>]
    /\ written = [j \in JobIds |-> << >>]
    /\ clock = 0

\* The call returns or raises; nothing else moves
Finish(op, outcome) ==
    /\ args.op = op
    /\ result = NotCalled
    /\ result' = outcome
    /\ UNCHANGED <<report_storage, redis, reports, nextId, path, payload, spc, bpc, loc,
                   calls, written, args, clock>>

IdeaCall == Finish("idea", TextProcess(args.reply))
CompCall == Finish("comp", CompProcess(args.address, args.search_mode, args.reply))
ContractorCall ==
    Finish("contractor", ContractorProcess(args.project_name, args.address, args.reply))
FinancialCall ==
    Finish("financial",
           FinancialProcess(args.property_data, args.renovation_ideas, args.comps, args.reply))

\* The calls of the pricing waterfall
ValueComps == {<< >>, <<CompModel>>, <<CompDerived, CompDirect>>}
ValueCalls ==
    {[op |-> "value", property_data |-> p, comps |-> c] : p \in Properties, c \in ValueComps}

ValueCall ==
    Finish("value", Returns(_determine_property_value(args.property_data, args.comps)))

\* The calls of tier 2 on its own: histories of up to two events
HistoryEvents ==
    {Event(e, f, a, p) : e \in {"sold", "Sold", "listed"}, f \in DateForms,
                         a \in SaleAges, p \in {480000}}
        \cup {Event("sold", f, 200, 390000) : f \in DateForms}
        \cup {[event |-> "sold", date |-> NoDate, price |-> PyInt(480000)]}
SaleHistories ==
    {PyNone, PyList(<< >>)} \cup {PyList(<<e>>) : e \in HistoryEvents}
        \cup {PyList(<<e, f>>) : e, f \in HistoryEvents}
SaleCalls == {[op |-> "recent_sale", property_data |-> [priceHistory |-> h]] : h \in SaleHistories}

SaleCall == Finish("recent_sale", Returns(_recent_sale_within_year(args.property_data)))

\* The calls of the comp average on its own
AvgCalls == {[op |-> "avg_ppsf", comps |-> c] : c \in CompLists}

AvgCall == Finish("avg_ppsf", Returns(_avg_ppsf_from_comps(args.comps)))

\* The stage adapters, each called once on its own
CallArgs == AdapterCalls

CallInit ==
    /\ JobsIdle
    /\ args \in CallArgs
    /\ result = NotCalled

CallNext ==
    \/ IdeaCall
    \/ CompCall
    \/ ContractorCall
    \/ FinancialCall

CallSpec == CallInit /\ [][CallNext]_vars

\* The pricing waterfall and its tiers, each called once on its own
ValuationArgs == ValueCalls \cup SaleCalls \cup AvgCalls

ValuationInit ==
    /\ JobsIdle
    /\ args \in ValuationArgs
    /\ result = NotCalled

ValuationNext ==
    \/ ValueCall
    \/ SaleCall
    \/ AvgCall

ValuationSpec == ValuationInit /\ [][ValuationNext]_vars

\* The external call of an adapter call failed, or its response is no JSON
ServiceFailed(a) ==
    CASE a.op = "idea" -> a.reply.kind \notin {"direct", "fenced"}
      [] a.op = "financial" ->
            a.reply.raises \/ (a.reply.text.candidate # "none" /\ a.reply.text.json = "broken")
      [] OTHER -> a.reply.raises

\* A returned value names a failure and its reason
FailureWithReason(value) == "error" \in DOMAIN value /\ value.error # "none"

\* C14: every stage adapter's process operation returns a value for every
\* outcome of its external call and every response text: a service failure or
\* an unparseable response yields an explicit failure value with a reason, and
\* no exception leaves process. This holds for the idea, comp, contractor and
\* financial adapters.
C14_AdaptersNeverRaise ==
    (args # NoneRec /\ args.op \in AdapterOps /\ result # NotCalled) =>
        /\ result.kind = "returned"
        /\ ServiceFailed(args) => FailureWithReason(result.value)

\* The idea adapter alone does return a value with a reason on every failure
IdeaAdapterReturns ==
    (args # NoneRec /\ args.op = "idea" /\ result # NotCalled) =>
        /\ result.kind = "returned"
        /\ ServiceFailed(args) => FailureWithReason(result.value)

-----------------------------------------------------------------------------
\* The pricing waterfall (C15..C18)

\* The amount a price value stands for: the int, the float's whole dollars,
\* the digits a text writes before its decimal point.
RECURSIVE UpToPoint(_)
UpToPoint(s) == IF s = << >> \/ s[1] = "." THEN << >> ELSE <<s[1]>> \o UpToPoint(Tail(s))
Amount(value) ==
    CASE value.t = "int" -> value.v
      [] value.t = "float" -> value.whole
      [] value.t = "str" -> NumberOf(SelectSeq(UpToPoint(value.s), IsDigit))
      [] OTHER -> 0

\* The sold events of a price history that carry a date, and the latest of them
SoldEvents(history) ==
    IF history = PyNone THEN {}
    ELSE {i \in 1..Len(history.items) :
             /\ Lower(history.items[i].event) = "sold"
             /\ history.items[i].date.form \in DateForms \ {"bad"}}
LatestSold(history) ==
    CHOOSE i \in SoldEvents(history) :
        \A k \in SoldEvents(history) : history.items[i].date.age <= history.items[k].date.age

\* Tier 2 as stated: the price of the latest sold event when it is less than
\* a year old
RecentSoldPrice(history) ==
    IF SoldEvents(history) = {} THEN 0
    ELSE IF history.items[LatestSold(history)].date.age < YearDays
         THEN Amount(history.items[LatestSold(history)].price)
    ELSE 0

\* The five tiers of a property, in order
Tiers(property_data, comps) ==
    <<Amount(property_data.price),
      RecentSoldPrice(property_data.priceHistory),
      Amount(property_data.estimate),
      RoundFrac(FracMul(<<Amount(property_data.sqft), 1>>, _avg_ppsf_from_comps(comps))),
      RoundFrac(FracMul(<<Amount(property_data.sqft), 1>>,
                        safe_parse_float(property_data.estimatePerSqft)))>>

\* The value of the lowest-numbered positive tier, 0 when there is none
FirstPositive(tiers) ==
    IF \A i \in 1..Len(tiers) : tiers[i] <= 0 THEN 0
    ELSE tiers[CHOOSE i \in 1..Len(tiers) :
                   tiers[i] > 0 /\ \A k \in 1..(i - 1) : tiers[k] <= 0]

\* C15: the valuation waterfall returns the value of the lowest-numbered tier
\* that is positive among (1) list price, (2) most recent sold price within
\* 365 days, (3) platform estimate, (4) subject sqft x average comp
\* price-per-sqft, (5) subject sqft x platform price-per-sqft; a later tier's
\* value is never returned while an earlier tier is positive.
C15_LowestPositiveTier ==
    (args # NoneRec /\ args.op = "value" /\ result # NotCalled) =>
        result.value = FirstPositive(Tiers(args.property_data, args.comps))

\* A property whose amounts are ints and whose sale dates carry a zone
PlainInputs(property_data) ==
    /\ property_data.price.t \in {"none", "int"}
    /\ property_data.estimate.t \in {"none", "int"}
    /\ \A i \in SoldEvents(property_data.priceHistory) :
           property_data.priceHistory.items[i].date.form \in {"zoned", "fallback"}

\* On such properties the tier order is as stated
TierOrderOnPlainInputs ==
    (args # NoneRec /\ args.op = "value" /\ result # NotCalled
        /\ PlainInputs(args.property_data)) =>
        result.value = FirstPositive(Tiers(args.property_data, args.comps))

\* C16: when the property's list price is present and greater than zero, the
\* waterfall result equals that list price exactly, for every representation
\* the property model can hold it in: an integer, a float such as 500000.0, or
\* a string with currency symbol, thousands separators and decimals such as
\* "$500,000.00".
C16_ListPriceExact ==
    (args # NoneRec /\ args.op = "value" /\ result # NotCalled
        /\ Amount(args.property_data.price) > 0) =>
        result.value = Amount(args.property_data.price)

\* The same for a list price held as an int
ListPriceExactForInt ==
    (args # NoneRec /\ args.op = "value" /\ result # NotCalled
        /\ args.property_data.price.t = "int" /\ args.property_data.price.v > 0) =>
        result.value = args.property_data.price.v

\* C17: tier 2 of the waterfall yields the price of the price-history event
\* with event type sold and the latest date if and only if that date lies
\* within 365 days before evaluation time; this holds for every accepted date
\* form (date-only YYYY-MM-DD as well as full ISO timestamps with a zone),
\* non-sold events are ignored, and a latest sold event older than 365 days
\* makes the tier yield nothing.
C17_RecentSoldAllDateForms ==
    (args # NoneRec /\ args.op = "recent_sale" /\ result # NotCalled) =>
        result.value = RecentSoldPrice(args.property_data.priceHistory)

\* The same for histories whose sold events all carry a date with a zone
RecentSoldZonedDates ==
    (args # NoneRec /\ args.op = "recent_sale" /\ result # NotCalled
        /\ \A i \in SoldEvents(args.property_data.priceHistory) :
              args.property_data.priceHistory.items[i].date.form # "date_only") =>
        result.value = RecentSoldPrice(args.property_data.priceHistory)

\* The number an int or a float stands for, as a fraction
Number(value) ==
    CASE value.t = "int" -> <<value.v, 1>>
      [] value.t = "float" ->
            Frac(value.whole * Pow10(Len(value.frac)) + NumberOf(value.frac),
                 Pow10(Len(value.frac)))
      [] OTHER -> <<0, 1>>

\* The first of the named fields of a comp that holds a positive number
Positive(item, names) ==
    LET found == SelectSeq(names, LAMBDA n : n \in DOMAIN item /\ FracPos(Number(item[n])))
    IN IF found = << >> THEN <<0, 1>> ELSE Number(item[found[1]])

\* What a comp contributes as stated: its positive direct price-per-sqft or,
\* failing that, price / sqft when both are positive; <<0, 1>> otherwise
Contribution(item) ==
    LET direct == Positive(item, <<"price_per_sqft", "ppsf", "pricePerSqft">>)
        price == Positive(item, <<"sale_price", "price", "list_price">>)
        sqft == Positive(item, <<"sqft", "livingArea", "livableSqft">>)
    IN IF FracPos(direct) THEN direct
       ELSE IF FracPos(price) /\ FracPos(sqft) THEN FracDiv(price, sqft)
       ELSE <<0, 1>>

\* The arithmetic mean over the comps that contribute, 0 when none does
MeanPpsf(comps) ==
    LET qualifying == {i \in 1..Len(comps) : FracPos(Contribution(comps[i]))}
        total == FracSum([i \in 1..Len(comps) |-> Contribution(comps[i])])
    IN IF qualifying = {} THEN <<0, 1>>
       ELSE FracDiv(total, <<Cardinality(qualifying), 1>>)

\* C18: the average comp price-per-sqft is the arithmetic mean over exactly
\* those comps that have a positive direct price-per-sqft or, failing that, a
\* positive price and positive sqft (contributing price/sqft); comps with
\* neither are excluded from both numerator and count, and the result is 0
\* when no comp qualifies.
C18_MeanOverQualifyingComps ==
    (args # NoneRec /\ args.op = "avg_ppsf" /\ result # NotCalled) =>
        result.value = MeanPpsf(args.comps)

\* The same for comps whose sqft is an int
MeanOverCompsWithIntSqft ==
    (args # NoneRec /\ args.op = "avg_ppsf" /\ result # NotCalled
        /\ \A i \in 1..Len(args.comps) : args.comps[i] # CompFloatSqft) =>
        result.value = MeanPpsf(args.comps)

\* The stated example: [{price 500000, sqft 1000}, {price_per_sqft 450}] -> 475
MeanExample ==
    (args # NoneRec /\ args.op = "avg_ppsf" /\ result # NotCalled
        /\ args.comps = <<CompDerived, CompDirect>>) =>
        result.value = <<475, 1>>

-----------------------------------------------------------------------------
\* The financial stage (C19, C20)

\* Every idea handed to the stage is named by a project of its output
IdeasPresent(renovation_ideas, projects) ==
    \A i \in 1..Len(renovation_ideas) :
        \E k \in 1..Len(projects) : projects[k].name = renovation_ideas[i]

\* C19: when no waterfall tier yields a positive value, the financial stage
\* reports the indeterminate outcome without raising and the pipeline
\* continues with the renovation ideas it was given still present (unpriced)
\* in its output; the ideas are not dropped and the job is not aborted.
C19_UnpricedIdeasKept ==
    (args # NoneRec /\ args.op = "financial" /\ result # NotCalled
        /\ _determine_property_value(args.property_data, args.comps) <= 0) =>
        /\ result.kind = "returned"
        /\ IdeasPresent(args.renovation_ideas, result.value)

\* In that case the stage does return, and what it returns is the empty list
UnpricedReturnsEmpty ==
    (args # NoneRec /\ args.op = "financial" /\ result # NotCalled
        /\ _determine_property_value(args.property_data, args.comps) <= 0) =>
        result = Returns(<< >>)

\* C20: for every priced idea, after_repair_value equals the waterfall value
\* plus the idea's medium value-add, and adjusted_roi equals
\* (after_repair_value - waterfall value - medium cost) / medium cost as a
\* ratio (not a percentage), computed from those figures and not taken from
\* the generative response.
C20_ArvAndAdjustedRoi ==
    (args # NoneRec /\ args.op = "financial" /\ result # NotCalled
        /\ result.kind = "returned") =>
        LET value == _determine_property_value(args.property_data, args.comps)
        IN \A k \in 1..Len(result.value) :
              LET project == result.value[k]
              IN /\ project.after_repair_value = value + project.estimated_value_add.medium
                 /\ project.estimated_cost.medium > 0 =>
                       project.adjusted_roi =
                           Frac(project.after_repair_value - value - project.estimated_cost.medium,
                                project.estimated_cost.medium)

\* The after-repair value alone is as stated
ArvIsValuePlusMediumValueAdd ==
    (args # NoneRec /\ args.op = "financial" /\ result # NotCalled
        /\ result.kind = "returned") =>
        \A k \in 1..Len(result.value) :
            result.value[k].after_repair_value =
                _determine_property_value(args.property_data, args.comps)
                    + result.value[k].estimated_value_add.medium

\* Some call priced an idea
SomeIdeaPriced ==
    /\ args # NoneRec
    /\ args.op = "financial"
    /\ result # NotCalled
    /\ result.kind = "returned"
    /\ result.value # << >>

-----------------------------------------------------------------------------
\* models/property_model.py: the value parser (C21)

\* The index after the run of digits of s that starts at i
RECURSIVE DigitRun(_, _)
DigitRun(s, i) == IF i <= Len(s) /\ IsDigit(s[i]) THEN DigitRun(s, i + 1) ELSE i

\* The index after the match of _number = [-+]?[0-9]*\.?[0-9]+ at i, and i when
\* the pattern does not match there
NumberMatch(s, i) ==
    LET signed == s[i] \in {"-", "+"}
        j == IF signed THEN i + 1 ELSE i
        k == DigitRun(s, j)
        point == k <= Len(s) /\ s[k] = "."
        m == IF point THEN DigitRun(s, k + 1) ELSE k
    IN IF point /\ m > k + 1 THEN m
       ELSE IF k > j THEN k
       ELSE i

\* _number.findall(s): the matches from left to right, none overlapping
RECURSIVE findall(_, _)
findall(s, i) ==
    IF i > Len(s) THEN << >>
    ELSE LET e == NumberMatch(s, i)
         IN IF e = i THEN findall(s, i + 1)
            ELSE <<SubSeq(s, i, e - 1)>> \o findall(s, e)

\* float(x) of a match of _number
FloatOfMatch(x) ==
    LET digits == SelectSeq(x, IsDigit)
        points == {i \in 1..Len(x) : x[i] = "."}
        place == IF points = {} THEN 0 ELSE Len(x) - (CHOOSE i \in points : TRUE)
    IN Frac((IF x[1] = "-" THEN -1 ELSE 1) * NumberOf(digits), Pow10(place))

FracLess(x, y) == x[1] * y[2] < y[1] * x[2]

\* max(nums)
RECURSIVE MaxOf(_)
MaxOf(nums) ==
    IF Len(nums) = 1 THEN nums[1]
    ELSE LET rest == MaxOf(Tail(nums))
         IN IF FracLess(nums[1], rest) THEN rest ELSE nums[1]

\* A float held exactly
Num(q) == [t |-> "num", q |-> q]

\* _parse_number(val)
_parse_number(val) ==
    CASE val = PyNone -> PyNone
      [] val.t = "int" -> Num(<<val.v, 1>>)
      [] val.t = "float" -> Num(safe_parse_float(val))
      [] val.t = "str" ->
            LET s == [i \in 1..Len(val.s) |-> IF val.s[i] = "," THEN " " ELSE val.s[i]]
                m == findall(s, 1)
            IN IF m = << >> THEN PyNone
               ELSE Num(MaxOf([i \in 1..Len(m) |-> FloatOfMatch(m[i])]))
      [] OTHER -> PyNone

\* int(f): towards zero
Trunc(q) == IF q[1] >= 0 THEN q[1] \div q[2] ELSE -((-q[1]) \div q[2])

\* _parse_int(val)
_parse_int(val) ==
    LET f == _parse_number(val)
    IN IF f # PyNone THEN PyInt(Trunc(f.q)) ELSE PyNone

\* Numeric-like strings: an optional currency symbol, digit groups joined by
\* thousands separators, an optional fraction and optional trailing unit text
Wholes ==
    {<<<<"1">>, <<"2", "3", "4">>>>, <<<<"5">>, <<"6", "0", "0">>>>, <<<<"7", "5", "0">>>>,
     <<<<"8", "0">>, <<"0", "0", "0">>>>, <<<<"1", "2", "3", "4">>>>}
Fractions == {<< >>, <<"5", "0">>, <<"2", "5">>}
UnitText == <<" ", "s", "q", " ", "f", "t">>
NumericLike ==
    [currency : BOOLEAN, whole : Wholes, fraction : Fractions, unit : BOOLEAN]

RECURSIVE Joined(_)
Joined(groups) ==
    IF Len(groups) = 1 THEN groups[1] ELSE groups[1] \o <<",">> \o Joined(Tail(groups))
RECURSIVE Flat(_)
Flat(groups) == IF groups = << >> THEN << >> ELSE groups[1] \o Flat(Tail(groups))

\* The text of a numeric-like string and the number it stands for
TextOfNumber(n) ==
    (IF n.currency THEN <<"$">> ELSE << >>) \o Joined(n.whole)
        \o (IF n.fraction = << >> THEN << >> ELSE <<".">> \o n.fraction)
        \o (IF n.unit THEN UnitText ELSE << >>)
Magnitude(n) == Frac(NumberOf(Flat(n.whole) \o n.fraction), Pow10(Len(n.fraction)))

\* Values with no number in them, and other values a caller may pass
DigitFree == {PyNone, PyStr(<< >>), PyStr(<<"a", "b", "c">>), PyStr(<<"$">>), PyStr(<<".">>)}
ParserValues ==
    {PyStr(TextOfNumber(n)) : n \in NumericLike} \cup DigitFree
        \cup {PyInt(5600), PyFloat(1234, <<"5">>), PyList(<< >>),
              PyStr(<<"1", "2", ".">>), PyStr(<<"-", ".", "5">>),
              PyStr(<<"1", ".", "2", ".", "3">>), PyStr(<<"5", "-", "1">>)}

ParserOps == {"_parse_number", "_parse_int", "safe_parse_int", "safe_parse_float"}
ParserArgs == {[op |-> o, val |-> v] : o \in ParserOps, v \in ParserValues}

ParseNumberCall == Finish("_parse_number", Returns(_parse_number(args.val)))
ParseIntCall == Finish("_parse_int", Returns(_parse_int(args.val)))
SafeParseIntCall == Finish("safe_parse_int", Returns(PyInt(safe_parse_int(args.val))))
SafeParseFloatCall == Finish("safe_parse_float", Returns(Num(safe_parse_float(args.val))))

\* The value parsers, each called once on its own
ParserInit ==
    /\ JobsIdle
    /\ args \in ParserArgs
    /\ result = NotCalled

ParserNext ==
    \/ ParseNumberCall
    \/ ParseIntCall
    \/ SafeParseIntCall
    \/ SafeParseFloatCall

ParserSpec == ParserInit /\ [][ParserNext]_vars

\* What a parser is to return for a number, and for no number
Parsed(op, q) ==
    IF op \in {"_parse_int", "safe_parse_int"} THEN PyInt(Trunc(q)) ELSE Num(q)
Absent(op) ==
    CASE op \in {"_parse_number", "_parse_int"} -> PyNone
      [] op = "safe_parse_int" -> PyInt(0)
      [] OTHER -> Num(<<0, 1>>)

ParserCalled == args.op \in ParserOps /\ result # NotCalled

\* C21: the value parser returns the number a numeric-like string stands for,
\* whatever currency symbol, thousands separators or trailing unit text it
\* carries, returns the absent result for None and for a string without
\* digits, and never raises.
C21_ParserMagnitude ==
    ParserCalled =>
        /\ result.kind = "returned"
        /\ \A n \in NumericLike :
               args.val = PyStr(TextOfNumber(n)) => result = Returns(Parsed(args.op, Magnitude(n)))
        /\ args.val \in DigitFree => result = Returns(Absent(args.op))

\* The parsers never raise, and return the absent result for None and for a
\* string without digits
ParserTotalAndAbsent ==
    ParserCalled =>
        /\ result.kind = "returned"
        /\ args.val \in DigitFree => result = Returns(Absent(args.op))

\* _parse_number is right on the numeric-like strings without a thousands
\* separator, and safe_parse_float on all of them
MagnitudeWithoutSeparator ==
    ParserCalled =>
        \A n \in NumericLike :
            /\ args.val = PyStr(TextOfNumber(n))
            /\ \/ args.op \in {"_parse_number", "_parse_int"} /\ Len(n.whole) = 1
               \/ args.op = "safe_parse_float"
            => result = Returns(Parsed(args.op, Magnitude(n)))

\* _parse_number has read "$1,234.50"
DollarStringParsed ==
    /\ args.op = "_parse_number"
    /\ args.val = PyStr(<<"$", "1", ",", "2", "3", "4", ".", "5", "0">>)
    /\ result = Returns(Num(<<469, 2>>))

-----------------------------------------------------------------------------
\* Reading a JSON value out of a response text (C22..C24)

\* A response text is a sequence of tokens: "{" "}" "[" "]" ",", a key with its
\* colon "k", a string "s", a run of one or two digits "d", a run of exactly
\* three digits "ddd" (adjacent runs are one number), a triple-backtick fence, the tag
\* "json" and a word of prose "p".  White space is left out.
Object1 == <<"{", "k", "s", "}">>
ObjectNumber == <<"{", "k", "d", "ddd", "}">>
ObjectNested == <<"{", "k", "{", "k", "s", "}", "}">>
ObjectArray == <<"{", "k", "[", "d", ",", "ddd", "]", "}">>
ObjectArrayJoined == <<"{", "k", "[", "d", "ddd", "]", "}">>
JsonObjects == {Object1, ObjectNumber, ObjectNested, ObjectArray, ObjectArrayJoined}
JsonLists == {<<"[", "]">>} \cup {<<"[">> \o o \o <<"]">> : o \in {Object1, ObjectNumber}}
JsonScalars == {<<"d">>}
JsonDocs == JsonObjects \cup JsonLists \cup JsonScalars

\* json.loads(text) of a text that json accepts: a dict, a list of dicts or a number
JsonObject(doc) == [t |-> "dict", doc |-> doc]
json_loads(doc) ==
    IF doc \in JsonObjects THEN JsonObject(doc)
    ELSE IF doc \in JsonLists
         THEN PyList(IF Len(doc) = 2 THEN << >> ELSE <<JsonObject(SubSeq(doc, 2, Len(doc) - 1))>>)
    ELSE PyInt(7)

\* Texts that json refuses: a thousands separator inside a number, a comma before
\* the closing brace, both, and a text that no repair mends
ObjectSeparated == <<"{", "k", "d", ",", "ddd", "}">>
ObjectTrailing == <<"{", "k", "s", ",", "}">>
ObjectBoth == <<"{", "k", "d", ",", "ddd", ",", "}">>
ObjectBroken == <<"{", "k", "}">>
Defective == {ObjectSeparated, ObjectTrailing, ObjectBoth}

\* The layouts of a response: prose or nothing before and after, and the body
\* bare, in a plain fence or in a fence tagged json
Fences == {"none", "plain", "tagged"}
Layout(before, fence, body, after) ==
    (IF before THEN <<"p">> ELSE << >>)
        \o (CASE fence = "plain" -> <<"fence">>
              [] fence = "tagged" -> <<"fence", "json">>
              [] OTHER -> << >>)
        \o body
        \o (IF fence = "none" THEN << >> ELSE <<"fence">>)
        \o (IF after THEN <<"p">> ELSE << >>)
Bodies == JsonDocs \cup Defective \cup {ObjectBroken}
ResponseTexts ==
    {Layout(b, f, d, a) : b \in BOOLEAN, f \in Fences, d \in Bodies, a \in BOOLEAN}
        \cup {<< >>, <<"p">>}

\* The smallest and the largest member of a set of indices, 0 for none
Least(S) == IF S = {} THEN 0 ELSE CHOOSE x \in S : \A y \in S : x <= y
Greatest(S) == IF S = {} THEN 0 ELSE CHOOSE x \in S : \A y \in S : x >= y

\* The group of the fence pattern (a fence, an optional json tag, the group, a
\* fence) matched at the fence at i, where the group opens with one of opens
\* and lazily runs to the first matching closing bracket that a fence follows;
\* << >> when the pattern does not match there
FenceGroupAt(raw, i, opens) ==
    LET j == IF i + 1 <= Len(raw) /\ raw[i + 1] = "json" THEN i + 2 ELSE i + 1
        ends == {e \in (j + 1)..(Len(raw) - 1) :
                    /\ raw[e] = (IF raw[j] = "[" THEN "]" ELSE "}")
                    /\ raw[e + 1] = "fence"}
    IN IF j <= Len(raw) /\ raw[j] \in opens /\ ends # {}
       THEN SubSeq(raw, j, Least(ends)) ELSE << >>

\* re.search of that pattern: the group of the leftmost match, << >> for no match
FenceGroup(raw, opens) ==
    LET starts == {i \in 1..Len(raw) : raw[i] = "fence" /\ FenceGroupAt(raw, i, opens) # << >>}
    IN IF starts = {} THEN << >> ELSE FenceGroupAt(raw, Least(starts), opens)

\* The digits an element of a text stands for: one for a digit character and
\* for the token d, three for the token ddd, none for anything else
DigitWidth(c) == IF c = "ddd" THEN 3 ELSE IF c = "d" \/ IsDigit(c) THEN 1 ELSE 0

\* The length of the run of digits that starts at position i
RECURSIVE DigitsFrom(_, _)
DigitsFrom(s, i) ==
    IF i > Len(s) \/ DigitWidth(s[i]) = 0 THEN 0
    ELSE DigitWidth(s[i]) + DigitsFrom(s, i + 1)

\* TextAnalysisAgent._clean_json_string: every comma that follows a digit and is
\* followed by at least three digits is removed, in one pass over the text
_clean_json_string(s) ==
    LET kept == {i \in 1..Len(s) :
                    ~(/\ s[i] = ","
                      /\ i > 1 /\ DigitWidth(s[i - 1]) > 0
                      /\ DigitsFrom(s, i + 1) >= 3)}
        RECURSIVE Pick(_)
        Pick(i) == IF i > Len(s) THEN << >>
                   ELSE (IF i \in kept THEN <<s[i]>> ELSE << >>) \o Pick(i + 1)
    IN Pick(1)

\* The repair of _extract_json_list: a comma before a closing bracket is removed
StripTrailingCommas(s) ==
    LET RECURSIVE Pick(_)
        Pick(i) == IF i > Len(s) THEN << >>
                   ELSE (IF s[i] = "," /\ i < Len(s) /\ s[i + 1] \in {"]", "}"}
                         THEN << >> ELSE <<s[i]>>) \o Pick(i + 1)
    IN Pick(1)

\* TextAnalysisAgent.process from raw_content on: the reply as TextProcess
\* knows it
TextReply(raw) ==
    LET direct == raw # << >> /\ raw[1] = "{" /\ Last(raw) = "}"
        json_str_to_parse == IF direct THEN raw ELSE FenceGroup(raw, {"{"})
        cleaned_json_str == _clean_json_string(json_str_to_parse)
    IN IF json_str_to_parse = << >> THEN [kind |-> "prose", ideas |-> << >>]
       ELSE IF cleaned_json_str \in JsonDocs
            THEN [kind |-> IF direct THEN "direct" ELSE "fenced",
                  ideas |-> json_loads(cleaned_json_str)]
       ELSE [kind |-> IF direct THEN "direct_broken" ELSE "fenced_broken", ideas |-> << >>]

\* ImageAnalysisAgent.process from raw_content on: the response as ImageProcess
\* knows it
ImageResponse(raw) ==
    LET group == FenceGroup(raw, {"{"})
    IN IF raw \in JsonDocs
       THEN [kind |-> IF raw \in JsonObjects THEN "direct" ELSE "nonobject",
             result |-> json_loads(raw)]
       ELSE IF group = << >> THEN [kind |-> "garbage", result |-> NoneRec]
       ELSE IF group \in JsonDocs THEN [kind |-> "fenced", result |-> json_loads(group)]
       ELSE [kind |-> "badfence", result |-> NoneRec]

\* What _extract_json_list finds in a text: the candidate of the fence pattern,
\* else the span from the first opening to the last closing bracket, and what
\* json.loads makes of it before and after the trailing commas are removed
FinancialText(text) ==
    LET group == FenceGroup(text, {"[", "{"})
        start == Least({i \in 1..Len(text) : text[i] \in {"[", "{"}})
        end == Greatest({i \in start..Len(text) : text[i] \in {"]", "}"}})
        span == IF start # 0 /\ end # 0 THEN SubSeq(text, start, end) ELSE << >>
        candidate == IF group # << >> THEN group ELSE span
        candidate2 == StripTrailingCommas(candidate)
    IN [empty |-> text = << >>,
        candidate |-> IF group # << >> THEN "fenced" ELSE IF span # << >> THEN "span" ELSE "none",
        json |-> IF candidate \in JsonDocs THEN "valid"
                 ELSE IF candidate2 \in JsonDocs THEN "fixable" ELSE "broken",
        data |-> IF candidate \in JsonDocs THEN json_loads(candidate)
                 ELSE IF candidate2 \in JsonDocs THEN json_loads(candidate2) ELSE PyNone]

\* The three extractors, each called once on a response text
ExtractOps == {"text", "image", "financial"}
ExtractArgs ==
    {[op |-> o, text |-> t, renovation_ideas |-> [renovation_ideas |-> <<1, 2>>, error |-> "none"]] :
        o \in ExtractOps, t \in ResponseTexts}

TextExtractCall == Finish("text", TextProcess(TextReply(args.text)))
ImageExtractCall ==
    Finish("image", Returns(ImageProcess(args.renovation_ideas, ImageResponse(args.text))))
JsonListCall == Finish("financial", _extract_json_list(FinancialText(args.text)))

ExtractInit ==
    /\ JobsIdle
    /\ args \in ExtractArgs
    /\ result = NotCalled

ExtractNext ==
    \/ TextExtractCall
    \/ ImageExtractCall
    \/ JsonListCall

ExtractSpec == ExtractInit /\ [][ExtractNext]_vars

ExtractCalled == args.op \in ExtractOps /\ "text" \in DOMAIN args /\ result # NotCalled

\* What an extractor returns when it has recovered the object J
Recovered(op, J) ==
    CASE op = "text" -> Returns([renovation_ideas |-> JsonObject(J), error |-> "none"])
      [] op = "image" -> Returns(JsonObject(J))
      [] OTHER -> Returns(<<JsonObject(J)>>)

\* C22: for any JSON object J, each extractor recovers J from J's raw text,
\* from J in a plain or tagged fenced block with prose around it, and from J
\* with prose before and/or after it and no fence.
C22_SameObjectFromEveryForm ==
    ExtractCalled =>
        \A J \in JsonObjects, b \in BOOLEAN, f \in Fences, a \in BOOLEAN :
            args.text = Layout(b, f, J, a) => result = Recovered(args.op, J)

\* _extract_json_list recovers J from every form
JsonListRecoversEveryForm ==
    ExtractCalled /\ args.op = "financial" =>
        \A J \in JsonObjects, b \in BOOLEAN, f \in Fences, a \in BOOLEAN :
            args.text = Layout(b, f, J, a) => result = Recovered(args.op, J)

\* The text and image agents recover J from its raw text and from a fenced
\* block, unless (text agent) J holds an array whose comma the cleaning removes
RawAndFencedRecovered ==
    ExtractCalled /\ args.op \in {"text", "image"} =>
        \A J \in JsonObjects, b \in BOOLEAN, f \in Fences, a \in BOOLEAN :
            /\ args.text = Layout(b, f, J, a)
            /\ f # "none" \/ (~b /\ ~a)
            /\ args.op = "text" => J # ObjectArray
            => result = Recovered(args.op, J)

\* The text agent has answered an object that follows a word of prose
ProseObjectLost ==
    /\ args.op = "text"
    /\ "text" \in DOMAIN args
    /\ args.text = Layout(TRUE, "none", Object1, FALSE)
    /\ result = Returns([renovation_ideas |-> << >>,
                         error |-> "LLM did not return valid JSON or markdown JSON"])

\* The text agent has read the array [1,200] as [1200]
ArrayJoined ==
    /\ args.op = "text"
    /\ "text" \in DOMAIN args
    /\ args.text = ObjectArray
    /\ result = Recovered("text", ObjectArrayJoined)

\* The object a defective text stands for once both repairs are made
Repaired(D) == IF D = ObjectTrailing THEN Object1 ELSE ObjectNumber

\* The forms every extractor reads when the object is sound: raw, or fenced
SoundForm(b, f, a) == f # "none" \/ (~b /\ ~a)

\* C23: thousands separators inside digit runs and trailing commas before a
\* closing bracket are both repaired before every parse attempt, so each
\* extractor parses a response whose only defects are of these two kinds.
C23_BothRepairsBeforeParse ==
    ExtractCalled =>
        \A D \in Defective, b \in BOOLEAN, f \in Fences, a \in BOOLEAN :
            args.text = Layout(b, f, D, a) /\ SoundForm(b, f, a)
                => result = Recovered(args.op, Repaired(D))

\* Each repair where the code has it: the text agent removes the thousands
\* separator, _extract_json_list the trailing comma
OneRepairEach ==
    ExtractCalled =>
        \A b \in BOOLEAN, f \in Fences, a \in BOOLEAN :
            /\ SoundForm(b, f, a)
            => /\ args.op = "text" /\ args.text = Layout(b, f, ObjectSeparated, a)
                   => result = Recovered("text", ObjectNumber)
               /\ args.op = "financial" /\ args.text = Layout(b, f, ObjectTrailing, a)
                   => result = Recovered("financial", Object1)

\* _extract_json_list has raised on a number with a thousands separator
SeparatorRaises ==
    /\ args.op = "financial"
    /\ "text" \in DOMAIN args
    /\ args.text = ObjectSeparated
    /\ result = Throws("JSONDecodeError")

\* The text agent has refused an object with a trailing comma
TrailingCommaRefused ==
    /\ args.op = "text"
    /\ "text" \in DOMAIN args
    /\ args.text = ObjectTrailing
    /\ result = Returns([renovation_ideas |-> << >>, error |-> "LLM returned invalid JSON"])

\* Every strategy of the extractor of a call has failed on its text
StrategiesFailed ==
    CASE args.op = "text" -> TextReply(args.text).kind \notin {"direct", "fenced"}
      [] args.op = "image" -> ImageResponse(args.text).kind \in {"garbage", "badfence"}
      [] OTHER -> FinancialText(args.text).json = "broken"

\* C24: when every extraction strategy fails on a response text, the
\* extractor does not raise and returns a failure value (one that names the
\* failure and carries the text), which the calling stage can recover from.
C24_FailureValueNotRaise ==
    ExtractCalled /\ StrategiesFailed =>
        /\ result.kind = "returned"
        /\ FailureWithReason(result.value)

\* The text and image agents return a failure value when every strategy fails
AgentsReturnFailureValue ==
    ExtractCalled /\ StrategiesFailed /\ args.op \in {"text", "image"} =>
        /\ result.kind = "returned"
        /\ FailureWithReason(result.value)

\* _extract_json_list has answered a text without any bracket with the empty
\* list, the answer it also gives for an empty JSON array
ProseReadAsEmptyList ==
    /\ args.op = "financial"
    /\ "text" \in DOMAIN args
    /\ args.text = <<"p">>
    /\ result = Returns(<< >>)

\* _extract_json_list has raised on a text that no repair mends
BrokenTextRaises ==
    /\ args.op = "financial"
    /\ "text" \in DOMAIN args
    /\ args.text = Layout(TRUE, "tagged", ObjectBroken, TRUE)
    /\ result = Throws("JSONDecodeError")

-----------------------------------------------------------------------------
\* Progress markers (C25)

\* The stages of the background unit and the progress marker
\* generate_detailed_report_background writes before each
Stages == {"text", "image", "market"}
ProgressOf(stage) ==
    CASE stage = "text" -> "Generating initial renovation ideas..."
      [] stage = "image" -> "Analyzing images (if any) and refining ideas..."
      [] OTHER -> "Analyzing market conditions..."

\* The stored record of job j tells that the given stage is in flight
TellsStage(j, stage) ==
    /\ Entry(j) # NoRec
    /\ Entry(j).status = "processing"
    /\ "progress" \in DOMAIN Entry(j)
    /\ Entry(j).progress = ProgressOf(stage)

ServiceProgressBeforeEachStage ==
    \A j \in JobIds : path[j] = "svc" /\ bpc[j] \in Stages => TellsStage(j, bpc[j])

\* A job of routers/reports.py is about to run its market stage
ServiceAtMarket == \E j \in JobIds : path[j] = "svc" /\ bpc[j] = "market"

\* A job of app.py is about to run its image stage and its stored record has
\* no progress field
AppStageUntold ==
    \E j \in JobIds :
        /\ path[j] = "app"
        /\ bpc[j] = "image"
        /\ Entry(j) # NoRec
        /\ "progress" \notin DOMAIN Entry(j)

-----------------------------------------------------------------------------
\* The stored report (C26, C27)

\* The background unit of job j stores the report the orchestrator compiled
StoresCompiled(j) ==
    /\ bpc[j] \in {"store", "finish"}
    /\ bpc'[j] = "done"
    /\ "detailed_report" \in DOMAIN loc[j].full_report

\* The record stored by that step holds the sections of the compiled report
HoldsCompiled(stored, full) ==
    /\ "detailed_report" \in DOMAIN stored
    /\ stored.detailed_report # NoneRec
    /\ stored.property.address = full.property.address
    /\ \A section \in {"renovation_ideas", "comparable_properties", "recommended_contractors"} :
           /\ section \in DOMAIN stored.detailed_report
           /\ stored.detailed_report[section] = full.detailed_report[section]
    /\ "market_summary" \in DOMAIN stored.detailed_report
    /\ stored.detailed_report.market_summary = full.market_summary

ServiceStoresCompiledWhole ==
    [][\A j \in JobIds :
          StoresCompiled(j) /\ path[j] = "svc" /\ j \in DOMAIN reports
              => reports'[j].detailed_report = loc[j].full_report]_vars

\* A job of app.py is complete, its text stage returned two ideas and no stage
\* raised, and the stored report holds no idea
CompleteWithoutIdeas ==
    \E j \in JobIds :
        /\ path[j] = "app"
        /\ Entry(j) # NoRec
        /\ Entry(j).status = "complete"
        /\ \E i \in 1..Len(calls[j]) : calls[j][i] = Yield("text", 2)
        /\ \A i \in 1..Len(calls[j]) : calls[j][i].phase # "raised"
        /\ Entry(j).detailed_report.renovation_ideas = << >>

\* The market stage of job j, the one stage that searches for contractors, has
\* failed and the report has been compiled
ContractorSearchFailed(j) ==
    /\ bpc[j] \in {"store", "finish"}
    /\ calls[j] # << >>
    /\ Last(calls[j]) = Call("market", "background")
    /\ "error" \in DOMAIN loc[j].market_adjusted

\* The ideas the report holds when the market stage leaves them alone
IdeasBeforeMarket(j) ==
    Get(loc[j].refined_ideas, "refined_renovation_ideas",
        Get(loc[j].initial_ideas, "renovation_ideas", << >>))

\* C27: if the contractor search fails, the report is still assembled, with
\* recommended_contractors empty and the other sections as the earlier stages
\* left them, and the job reaches its successful terminal status.
C27_ContractorFailureIsolated ==
    \A j \in JobIds :
        ContractorSearchFailed(j) =>
            /\ "detailed_report" \in DOMAIN loc[j].full_report
            /\ loc[j].full_report.detailed_report.recommended_contractors = << >>
            /\ loc[j].full_report.detailed_report.renovation_ideas = IdeasBeforeMarket(j)

\* The report is assembled with no contractors
ContractorFailureAssembled ==
    \A j \in JobIds :
        ContractorSearchFailed(j) =>
            /\ "detailed_report" \in DOMAIN loc[j].full_report
            /\ loc[j].full_report.detailed_report.recommended_contractors = << >>

\* and the job then stores a successful terminal status
ContractorFailureNotFatal ==
    [][\A j \in JobIds :
          ContractorSearchFailed(j) /\ bpc'[j] = "done" /\ Entry(j)' # NoRec
              => Entry(j)'.status \in {"complete", "completed"}]_vars

\* The market stage has failed on a job with two refined ideas and the report
\* holds none
IdeasLostWithContractors ==
    \E j \in JobIds :
        /\ ContractorSearchFailed(j)
        /\ Len(IdeasBeforeMarket(j)) = 2
        /\ loc[j].full_report.detailed_report.renovation_ideas = << >>

-----------------------------------------------------------------------------
\* Retention (C28)

\* C28: every job store entry is written with a bounded expiry, so every
\* entry, terminal or not, is eventually evicted from the store.
C28_EventuallyEvicted ==
    \A j \in JobIds : (Entry(j) # NoRec) ~> (Entry(j) = NoRec)

\* No step removes an entry: the writes of app.py pass no expiry to
\* report_storage.set, and ReportService.reports is a dict that is only added to
EntriesNeverRemoved ==
    [][\A j \in JobIds : Entry(j) # NoRec => Entry(j)' # NoRec]_vars

\* A job is finished and its entry is in the store
TerminalEntryKept ==
    \E j \in JobIds : bpc[j] = "done" /\ Entry(j) # NoRec

-----------------------------------------------------------------------------
\* Taking in a submitted property (C29)

\* PropertyDetails.from_raw(raw): the fields address, price, sqft and images
from_raw(raw) ==
    LET src == IF "property_data" \in DOMAIN raw THEN raw.property_data ELSE raw
        sqft == Or(Or(Or(_parse_int(Get(src, "sqft", PyNone)),
                         _parse_int(Get(src, "livingArea", PyNone))),
                      _parse_int(Get(src, "living_sqft", PyNone))),
                   _parse_int(Get(src, "size", PyNone)))
        address == IF Get(src, "address", "") # "" THEN src.address
                   ELSE Get(src, "fullAddress", "none")
    IN [address |-> address,
        price |-> _parse_number(Get(src, "price", PyNone)),
        sqft |-> sqft,
        images |-> ImagesOrEmpty(Get(src, "images", "null"))]

\* Property objects as a client sends them, bare or under a wrapper key
SubmittedObjects ==
    [address : Addresses,
     price : {PyNone, PyInt(500000), PyStr(<<"$", "5", "0", "0", "0", "0", "0">>)},
     sqft : {PyNone, PyInt(1200), PyStr(<<"1", "2", "0", "0", " ", "s", "q", " ", "f", "t">>)},
     images : ImageVals]
Submitted ==
    SubmittedObjects
        \cup {[property_data |-> o] : o \in SubmittedObjects}
        \cup {[property |-> o] : o \in SubmittedObjects}

IntakeOps == {"from_raw", "template"}
IntakeArgs == {[op |-> o, raw |-> r] : o \in IntakeOps, r \in Submitted}

\* What each operation makes of a body
Intake(op, raw) ==
    IF op = "from_raw" THEN from_raw(raw)
    ELSE build_template_from_property(1, "processing", raw)

FromRawCall == Finish("from_raw", Returns(Intake("from_raw", args.raw)))
\* analyze_property of app.py: the initial record built from the body
TemplateCall == Finish("template", Returns(Intake("template", args.raw)))

IntakeInit ==
    /\ JobsIdle
    /\ args \in IntakeArgs
    /\ result = NotCalled

IntakeNext ==
    \/ FromRawCall
    \/ TemplateCall

IntakeSpec == IntakeInit /\ [][IntakeNext]_vars

\* A body that nests the object under the wrapper key has been taken in
WrappedTaken ==
    /\ args.op \in IntakeOps
    /\ "raw" \in DOMAIN args
    /\ "property_data" \in DOMAIN args.raw
    /\ result # NotCalled

\* C29: an object nested under the wrapper key gives the same normalized
\* property, and the same initial job record, as the object submitted directly.
C29_WrapperSameAsDirect ==
    WrappedTaken => result = Returns(Intake(args.op, args.raw.property_data))

\* from_raw alone gives the same property for both
FromRawUnwraps ==
    WrappedTaken /\ args.op = "from_raw"
        => result = Returns(Intake(args.op, args.raw.property_data))

\* The initial record of a wrapped object with address a1 has an empty address
WrappedRecordEmpty ==
    /\ WrappedTaken
    /\ args.op = "template"
    /\ args.raw.property_data.address = "a1"
    /\ result.value.property.address = ""

-----------------------------------------------------------------------------
\* Two submissions of one payload (C30)

\* What the text stage answered to the submission handler of a job of
\* routers/reports.py, as the record it created shows it
SubmitAnswer(j) ==
    IF path[j] = "svc" /\ written[j] # << >> THEN written[j][1].quick_insights ELSE NoneRec

\* Jobs a and b were given the same payload on the same entry point, every
\* stage answered both alike, and both are finished with a stored report
SameRun(a, b) ==
    /\ a # b
    /\ path[a] = path[b]
    /\ payload[a] = payload[b]
    /\ calls[a] = calls[b]
    /\ SubmitAnswer(a) = SubmitAnswer(b)
    /\ bpc[a] = "done" /\ bpc[b] = "done"
    /\ Entry(a) # NoRec /\ Entry(b) # NoRec

\* C30: two submissions of the same payload get two distinct job ids, and
\* when the stages answer both alike their final stored reports are equal
\* except for the job id: neither run influences the other.
C30_SamePayloadSameReport ==
    \A a, b \in JobIds :
        SameRun(a, b) =>
            /\ Entry(a).report_id # Entry(b).report_id
            /\ Entry(a) = [Entry(b) EXCEPT !.report_id = Entry(a).report_id]

\* Two such jobs of routers/reports.py whose text stage returned two ideas are
\* finished
C30_Witness ==
    \E a, b \in JobIds :
        /\ SameRun(a, b)
        /\ path[a] = "svc"
        /\ \E i \in 1..Len(calls[a]) : calls[a][i] = Yield("text", 2)
        /\ Entry(a).status = "completed"

-----------------------------------------------------------------------------
\* The status vocabulary (C31)

\* The three status strings of a job record
StatusVocabulary == {"processing", "complete", "failed"}

\* C31: the status of every stored job record is one of processing, complete,
\* failed, and no write stores any other status string.
C31_StatusVocabulary ==
    /\ \A id \in DOMAIN redis : redis[id].status \in StatusVocabulary
    /\ \A id \in DOMAIN reports : reports[id].status \in StatusVocabulary
    /\ \A j \in JobIds : \A i \in 1..Len(written[j]) :
           written[j][i].status \in StatusVocabulary

\* The writes of app.py store only the three strings
RedisStatusVocabulary ==
    \A j \in JobIds :
        path[j] = "app" =>
            /\ StatusOf(j) \in StatusVocabulary \cup {"absent"}
            /\ \A i \in 1..Len(written[j]) : written[j][i].status \in StatusVocabulary

\* The final update of generate_detailed_report_background has stored the
\* string completed
CompletedStored ==
    \E j \in JobIds :
        /\ path[j] = "svc"
        /\ bpc[j] = "done"
        /\ Entry(j) # NoRec
        /\ Entry(j).status = "completed"
        /\ Last(written[j]).status = "completed"

-----------------------------------------------------------------------------
\* The order of the stages (C32)

\* The stage invocations of job j's pipeline run, in the order they were made
PipelineCalls(j) == SelectSeq(calls[j], LAMBDA c : c.phase = "background")

\* The place of a stage in the pipeline
StageRank(stage) ==
    CASE stage = "text" -> 1
      [] stage = "image" -> 2
      [] stage = "market" -> 3
      [] OTHER -> 0

\* The event with which a stage returns to the pipeline
ReturnsStage(e, stage) == e.stage = stage /\ e.phase \in {"returned", "reply"}

\* Stage invocations of job j come in pipeline order, none twice
InOrderOnce(j) ==
    \A a, b \in 1..Len(PipelineCalls(j)) :
        a < b => StageRank(PipelineCalls(j)[a].stage) < StageRank(PipelineCalls(j)[b].stage)

\* An invocation followed by another one has returned before it
ReturnedBeforeNext(j) ==
    \A a, b \in 1..Len(calls[j]) :
        (a < b /\ calls[j][a].phase = "background" /\ calls[j][b].phase = "background")
            => /\ a + 1 < b
               /\ ReturnsStage(calls[j][a + 1], calls[j][a].stage)

\* The pipeline of job j has compiled its report
Compiled(j) ==
    /\ bpc[j] \in {"store", "finish"}
    /\ "detailed_report" \in DOMAIN loc[j].full_report

\* Every stage before the compilation has returned or was skipped
AllStagesOver(j) ==
    /\ \E i \in 1..Len(calls[j]) : ReturnsStage(calls[j][i], "text")
    /\ IF ImagesTruthy(payload[j].images)
       THEN \E i \in 1..Len(calls[j]) : ReturnsStage(calls[j][i], "image")
       ELSE ~Invoked(j, "image")
    /\ IF AddressTruthy(payload[j].address)
       THEN Last(calls[j]) = Call("market", "background")
       ELSE ~Invoked(j, "market")
    /\ loc[j].market_adjusted # NoneRec

\* C32: within one job the pipeline invokes idea generation, image review and
\* market adjustment in that order, each at most once and each only after the
\* one before it has returned, and compiles the report only after all of them
\* have returned or been skipped.
C32_StagesInOrder ==
    \A j \in JobIds :
        /\ InOrderOnce(j)
        /\ ReturnedBeforeNext(j)
        /\ Compiled(j) => AllStagesOver(j)

\* On both entry points a pipeline that invoked all three stages has compiled
\* its report
C32_Witness ==
    \E j, k \in JobIds :
        /\ path[j] = "app" /\ path[k] = "svc"
        /\ Compiled(j) /\ Compiled(k)
        /\ Len(PipelineCalls(j)) = 3 /\ Len(PipelineCalls(k)) = 3

-----------------------------------------------------------------------------
\* Carrying the ideas past a failed market stage (C33)

\* The market stage of job j has failed and the report has been compiled
MarketStageFailed(j) ==
    /\ Compiled(j)
    /\ Invoked(j, "market")
    /\ "error" \in DOMAIN loc[j].market_adjusted

\* C33: when the market stage fails, the compiled report holds the refined
\* ideas (the initial ones when there are no refined ones), not the empty list,
\* and its budget and value totals are those of these ideas.
C33_IdeasCarriedForward ==
    \A j \in JobIds :
        MarketStageFailed(j) =>
            LET report == loc[j].full_report.detailed_report
            IN /\ report.renovation_ideas = IdeasBeforeMarket(j)
               /\ report.total_budget = TotalBudget(IdeasBeforeMarket(j))
               /\ report.potential_value_increase = TotalValue(IdeasBeforeMarket(j))

\* The totals are those of the idea list the report holds
TotalsOverReportedIdeas ==
    \A j \in JobIds :
        Compiled(j) =>
            LET report == loc[j].full_report.detailed_report
            IN /\ report.total_budget = TotalBudget(report.renovation_ideas)
               /\ report.potential_value_increase = TotalValue(report.renovation_ideas)

\* When the market stage is skipped the ideas are carried forward
SkippedMarketCarriesIdeas ==
    \A j \in JobIds :
        Compiled(j) /\ ~Invoked(j, "market") =>
            loc[j].full_report.detailed_report.renovation_ideas = IdeasBeforeMarket(j)

\* The market stage failed after two refined ideas and the compiled report has
\* no idea and totals of zero
FailedMarketEmptiesReport ==
    \E j \in JobIds :
        /\ MarketStageFailed(j)
        /\ Len(IdeasBeforeMarket(j)) = 2
        /\ loc[j].full_report.detailed_report.renovation_ideas = << >>
        /\ loc[j].full_report.detailed_report.total_budget = 0
        /\ TotalBudget(IdeasBeforeMarket(j)) = 3000

-----------------------------------------------------------------------------
\* The property record through generate_full_report (C34)

\* generate_full_report is running for job j
InFullReport(j) == path[j] = "app" /\ bpc[j] \in {"text", "image", "market"}

\* C34: generate_full_report never changes the property record it is given,
\* and the report it returns holds that same record under the property key,
\* both when every stage returns and when an exception is absorbed inside it.
C34_PropertyUnchangedAndReturned ==
    [][\A j \in JobIds :
          InFullReport(j) =>
              /\ payload'[j] = payload[j]
              /\ bpc'[j] = "store" =>
                     /\ "property" \in DOMAIN loc'[j].full_report
                     /\ loc'[j].full_report.property = PropertyDict(payload[j])
                     /\ \/ "detailed_report" \in DOMAIN loc'[j].full_report
                        \/ "error" \in DOMAIN loc'[j].full_report]_vars

\* generate_full_report has returned a compiled report for one job and the
\* report of an absorbed exception for another
C34_Witness ==
    \E j, k \in JobIds :
        /\ path[j] = "app" /\ bpc[j] = "store"
        /\ path[k] = "app" /\ bpc[k] = "store"
        /\ "detailed_report" \in DOMAIN loc[j].full_report
        /\ loc[j].full_report.property = PropertyDict(payload[j])
        /\ "error" \in DOMAIN loc[k].full_report
        /\ loc[k].full_report.property = PropertyDict(payload[k])

-----------------------------------------------------------------------------
\* Timestamps of a job record (C35)

\* How far the clock is followed
MaxClock == 3

\* now_iso() of app.py and datetime.now of the ReportStatus defaults: the
\* reading of the clock at the moment of the call
now_iso == [utc |-> clock]

\* The created_at and updated_at arguments of the two template builders of
\* app.py, and the two defaulted fields of a new ReportStatus
Stamped(record, created_at, updated_at) ==
    [k \in (DOMAIN record) \cup {"created_at", "updated_at"} |->
        IF k = "created_at" THEN created_at
        ELSE IF k = "updated_at" THEN updated_at
        ELSE record[k]]

\* Time passes
ClockTick ==
    /\ clock < MaxClock
    /\ clock' = clock + 1
    /\ UNCHANGED <<report_storage, redis, reports, nextId, path, payload, spc, bpc, loc,
                   calls, written, args, result>>

\* analyze_property: the initial record with its two timestamps, then the
\* thread is started and the id returned
StampedSubmit(j, p) ==
    /\ j = nextId
    /\ spc[j] = "idle"
    /\ report_storage = "client"
    /\ nextId' = nextId + 1
    /\ path' = [path EXCEPT ![j] = "app"]
    /\ payload' = [payload EXCEPT ![j] = p]
    /\ LET initial == Stamped(build_template_from_property(j, "processing", PropertyDict(p)),
                              now_iso, now_iso)
       IN /\ redis' = StoreSet(redis, j, initial)
          /\ written' = Remember(j, initial)
    /\ spc' = [spc EXCEPT ![j] = "returned"]
    /\ bpc' = [bpc EXCEPT ![j] = "start"]
    /\ UNCHANGED <<report_storage, reports, loc, calls, args, result, clock>>

\* run_orchestrator_in_background: generate_full_report returned and the
\* complete template is stored
StampedComplete(j) ==
    /\ path[j] = "app"
    /\ bpc[j] = "start"
    /\ \E r \in TextResults :
          LET full == CompileFullReport(PropertyDict(payload[j]), r, r, r)
              template_payload ==
                  Stamped(build_template_from_fullreport(j, "complete", full),
                          now_iso, now_iso)
          IN /\ redis' = StoreSet(redis, j, template_payload)
             /\ written' = Remember(j, template_payload)
    /\ bpc' = [bpc EXCEPT ![j] = "done"]
    /\ UNCHANGED <<report_storage, reports, nextId, path, payload, spc, loc, calls,
                   args, result, clock>>

\* run_orchestrator_in_background, except branch: the failed shell is stored
StampedFail(j) ==
    /\ path[j] = "app"
    /\ bpc[j] = "start"
    /\ LET fail_payload ==
               Put(Stamped(build_template_from_property(j, "failed", PropertyDict(payload[j])),
                           now_iso, now_iso),
                   "error", "GEMINI_API_KEY environment variable not set.")
       IN /\ redis' = StoreSet(redis, j, fail_payload)
          /\ written' = Remember(j, fail_payload)
    /\ bpc' = [bpc EXCEPT ![j] = "done"]
    /\ UNCHANGED <<report_storage, reports, nextId, path, payload, spc, loc, calls,
                   args, result, clock>>

\* ReportService.create_report: the new ReportStatus takes both timestamps
\* from the clock
StampedCreate(j, p) ==
    /\ j = nextId
    /\ spc[j] = "idle"
    /\ ValidPropertyDetails(p)
    /\ nextId' = nextId + 1
    /\ path' = [path EXCEPT ![j] = "svc"]
    /\ payload' = [payload EXCEPT ![j] = p]
    /\ \E r \in TextResults :
          LET report == Stamped(NewReportStatus(j, PropertyDict(p), FormatQuickInsights(r)),
                                now_iso, now_iso)
          IN /\ reports' = StoreSet(reports, j, report)
             /\ written' = Remember(j, report)
    /\ spc' = [spc EXCEPT ![j] = "returned"]
    /\ bpc' = [bpc EXCEPT ![j] = "start"]
    /\ UNCHANGED <<report_storage, redis, loc, calls, args, result, clock>>

\* The update_report calls generate_detailed_report_background makes with the
\* status processing before its final one
ProgressUpdates == 4

\* One update_report call of generate_detailed_report_background: a progress
\* update, the completed update or the failed update
StampedUpdate(j, status) ==
    /\ path[j] = "svc"
    /\ bpc[j] = "start"
    /\ j \in DOMAIN reports
    /\ status = "processing" => Len(written[j]) <= ProgressUpdates
    /\ LET updated ==
               CASE status = "processing" ->
                        UpdateReport(reports[j], status, NoneRec, "none",
                                     "Analyzing property data...")
                 [] status = "completed" ->
                        UpdateReport(reports[j], status,
                                     CompileFullReport(PropertyDict(payload[j]),
                                                       [renovation_ideas |-> <<1, 2>>],
                                                       [renovation_ideas |-> <<1, 2>>],
                                                       [renovation_ideas |-> <<1, 2>>]),
                                     "none", "Report generated successfully.")
                 [] OTHER ->
                        UpdateReport(reports[j], status, NoneRec, "error",
                                     "Failed to generate report.")
       IN /\ reports' = StoreSet(reports, j, updated)
          /\ written' = Remember(j, updated)
    /\ bpc' = [bpc EXCEPT ![j] = IF status = "processing" THEN "start" ELSE "done"]
    /\ UNCHANGED <<report_storage, redis, nextId, path, payload, spc, loc, calls,
                   args, result, clock>>

StampInit ==
    /\ report_storage = "client"
    /\ redis = EmptyDict
    /\ reports = EmptyDict
    /\ nextId = 1
    /\ path = [j \in JobIds |-> "idle"]
    /\ payload = [j \in JobIds |-> MalformedBody]
    /\ spc = [j \in JobIds |-> "idle"]
    /\ bpc = [j \in JobIds |-> "none"]
    /\ loc = [j \in JobIds |-> NoLocals]
    /\ calls = [j \in JobIds |-> << >>]
    /\ written = [j \in JobIds |-> << >>]
    /\ args = NoneRec
    /\ result = NotCalled
    /\ clock = 0

\* The bodies submitted while the timestamps are followed
StampedBodies == {p \in ObjectBodies : p.address = "a1" /\ p.images = "empty"}

StampNext ==
    \/ ClockTick
    \/ \E j \in JobIds, p \in StampedBodies : StampedSubmit(j, p)
    \/ \E j \in JobIds : StampedComplete(j)
    \/ \E j \in JobIds : StampedFail(j)
    \/ \E j \in JobIds, p \in StampedBodies : StampedCreate(j, p)
    \/ \E j \in JobIds, status \in {"processing", "completed", "failed"} : StampedUpdate(j, status)

StampSpec == StampInit /\ [][StampNext]_vars

\* The created_at of the record stored under an id; NoRec while there is none
CreatedAt(id) ==
    IF Lookup(redis, id) # NoRec THEN redis[id].created_at
    ELSE IF Lookup(reports, id) # NoRec THEN reports[id].created_at
    ELSE NoRec

\* C35: the created_at stored for a job is set by the submission write and is
\* left unchanged by every later write for that job.
C35_CreatedAtSetOnce ==
    [][\A id \in JobIds : CreatedAt(id) # NoRec => CreatedAt(id)' = CreatedAt(id)]_vars

\* update_report leaves created_at, and updated_at with it, as create_report
\* set them
ServiceKeepsCreatedAt ==
    [][\A id \in JobIds :
          Lookup(reports, id) # NoRec =>
              /\ reports'[id].created_at = reports[id].created_at
              /\ reports'[id].updated_at = reports[id].updated_at]_vars

\* A terminal write of app.py stores the time of that write as created_at
TerminalWriteRestamps ==
    [][\A id \in JobIds :
          (Lookup(redis, id) # NoRec /\ redis'[id] # redis[id]) =>
              /\ redis'[id].created_at = now_iso
              /\ redis'[id].updated_at = now_iso]_vars

\* A job submitted at tick 0 holds a complete record created at tick 2
CreatedAtMoved ==
    \E id \in JobIds :
        /\ Len(written[id]) = 2
        /\ written[id][1].status = "processing"
        /\ written[id][1].created_at = [utc |-> 0]
        /\ Lookup(redis, id) # NoRec
        /\ redis[id].status = "complete"
        /\ redis[id].created_at = [utc |-> 2]

-----------------------------------------------------------------------------
\* Submission without a job store (C36)

\* Job j was submitted to app.py while get_redis_client had given no client
SubmittedWithoutStore(j) ==
    /\ report_storage = "none"
    /\ path[j] = "app"
    /\ spc[j] # "idle"

\* C36: when the job store is unavailable at submission time, the submission
\* is answered with the storage-unavailable error and creates nothing: no
\* record, no job id in the answer, no background unit and no stage call.
C36_UnavailableCreatesNothing ==
    \A j \in JobIds :
        SubmittedWithoutStore(j) =>
            /\ spc[j] = "unavailable"
            /\ report_status(j) = "unavailable"
            /\ Lookup(redis, j) = NoRec
            /\ written[j] = << >>
            /\ bpc[j] = "none"
            /\ calls[j] = << >>

\* A well-formed property with an address and images has been submitted
\* without a store and answered
C36_Witness ==
    \E j \in JobIds :
        /\ SubmittedWithoutStore(j)
        /\ payload[j].kind = "object"
        /\ payload[j].address = "a1"
        /\ payload[j].images = "some"
        /\ spc[j] = "unavailable"

-----------------------------------------------------------------------------
\* The thousands-separator cleanup on valid JSON (C37)

\* What json.loads makes of a text it refuses
Invalid == [t |-> "invalid"]

\* A JSON number: a run of digits with no leading zero, known by its digits
ParseNumber(t) ==
    IF t # << >> /\ AllDigits(t) /\ (Len(t) = 1 \/ t[1] # "0")
    THEN [t |-> "int", digits |-> t] ELSE Invalid

\* A JSON string: the characters between two quotes, none of them a quote
ParseString(t) ==
    IF /\ Len(t) >= 2 /\ t[1] = "quote" /\ t[Len(t)] = "quote"
       /\ \A i \in 2..(Len(t) - 1) : t[i] # "quote"
    THEN [t |-> "str", s |-> SubSeq(t, 2, Len(t) - 1)] ELSE Invalid

ParseScalar(t) == IF ParseNumber(t) # Invalid THEN ParseNumber(t) ELSE ParseString(t)

\* Position i of t lies inside a string
InString(t, i) == Cardinality({k \in 1..(i - 1) : t[k] = "quote"}) % 2 = 1

\* The pieces of t between its commas, the commas inside strings left alone
Pieces(t) ==
    LET cuts == {i \in 1..Len(t) : t[i] = "," /\ ~InString(t, i)}
        RECURSIVE From(_)
        From(i) ==
            LET rest == {c \in cuts : c >= i}
            IN IF rest = {} THEN <<SubSeq(t, i, Len(t))>>
               ELSE <<SubSeq(t, i, Least(rest) - 1)>> \o From(Least(rest) + 1)
    IN From(1)

\* A JSON array of scalars
ParseArray(t) ==
    IF Len(t) >= 2 /\ t[1] = "[" /\ t[Len(t)] = "]"
    THEN IF Len(t) = 2 THEN PyList(<< >>)
         ELSE LET items == Pieces(SubSeq(t, 2, Len(t) - 1))
              IN IF \A i \in 1..Len(items) : ParseScalar(items[i]) # Invalid
                 THEN PyList([i \in 1..Len(items) |-> ParseScalar(items[i])])
                 ELSE Invalid
    ELSE Invalid

ParseValue(t) == IF ParseArray(t) # Invalid THEN ParseArray(t) ELSE ParseScalar(t)

\* json.loads(text) on the characters of a text: an object with the one key k
\* (the element k stands for the key and its colon), an array or a scalar
JsonValue(t) ==
    IF Len(t) >= 3 /\ t[1] = "{" /\ t[2] = "k" /\ t[Len(t)] = "}"
    THEN LET v == ParseValue(SubSeq(t, 3, Len(t) - 1))
         IN IF v = Invalid THEN Invalid ELSE [t |-> "dict", k |-> v]
    ELSE ParseValue(t)

\* Valid JSON texts: numbers, strings, arrays of them, bare and under a key
NumberTexts == {<<"1">>, <<"2">>, <<"2", "0", "0">>, <<"3", "4", "5">>}
StringTexts == {<<"quote", "a", "quote">>, <<"quote", "1", ",", "2", "0", "0", "quote">>}
ScalarTexts == NumberTexts \cup StringTexts
MaxItems == 3
ArrayTexts ==
    {<<"[", "]">>}
        \cup {<<"[">> \o Joined(items) \o <<"]">> :
                 items \in UNION {[1..n -> ScalarTexts] : n \in 1..(MaxItems - 1)}}
        \cup {<<"[">> \o Joined(items) \o <<"]">> : items \in [1..MaxItems -> NumberTexts]}
ValueTexts == ScalarTexts \cup ArrayTexts
ValidJsonTexts == ValueTexts \cup {<<"{", "k">> \o v \o <<"}">> : v \in ValueTexts}

CleanupOps == {"parse", "again"}
CleanupArgs == {[op |-> o, text |-> t] : o \in CleanupOps, t \in ValidJsonTexts}

\* TextAnalysisAgent.process: result = json.loads(self._clean_json_string(text))
CleanParseCall == Finish("parse", Returns(JsonValue(_clean_json_string(args.text))))
\* The cleanup applied to its own output
CleanAgainCall ==
    Finish("again", Returns(_clean_json_string(_clean_json_string(args.text))))

CleanupInit ==
    /\ JobsIdle
    /\ args \in CleanupArgs
    /\ result = NotCalled

CleanupNext ==
    \/ CleanParseCall
    \/ CleanAgainCall

CleanupSpec == CleanupInit /\ [][CleanupNext]_vars

CleanupCalled == args.op \in CleanupOps /\ "text" \in DOMAIN args /\ result # NotCalled

\* C37: for every valid JSON text t, parsing the cleaned text gives the value
\* of parsing t, and cleaning a cleaned text changes nothing.
C37_CleanupKeepsMeaning ==
    CleanupCalled =>
        /\ JsonValue(args.text) # Invalid
        /\ args.op = "parse" => result = Returns(JsonValue(args.text))
        /\ args.op = "again" => result = Returns(_clean_json_string(args.text))

\* Every text handed to the cleanup is valid JSON, and the cleaned text is too
CleanedStillParses ==
    CleanupCalled /\ args.op = "parse" =>
        /\ JsonValue(args.text) # Invalid
        /\ result.value # Invalid

\* A text with no comma between a digit and three digits is left as it is
UntouchedWithoutPattern ==
    (CleanupCalled /\ args.op = "parse"
        /\ \A i \in 2..Len(args.text) :
               ~(args.text[i] = "," /\ IsDigit(args.text[i - 1])
                    /\ DigitsFrom(args.text, i + 1) >= 3))
        => result = Returns(JsonValue(args.text))

\* The array [1,200] is read as the array [1200]
ArrayItemsMerged ==
    /\ CleanupCalled /\ args.op = "parse"
    /\ args.text = <<"[", "1", ",", "2", "0", "0", "]">>
    /\ result = Returns(PyList(<<[t |-> "int", digits |-> <<"1", "2", "0", "0">>]>>))

\* The string "1,200" is read as the string "1200"
StringContentChanged ==
    /\ CleanupCalled /\ args.op = "parse"
    /\ args.text = <<"quote", "1", ",", "2", "0", "0", "quote">>
    /\ result = Returns([t |-> "str", s |-> <<"1", "2", "0", "0">>])

\* Cleaning [1,2,345] gives [1,2345] and cleaning that gives [12345]
SecondPassRemovesMore ==
    /\ CleanupCalled /\ args.op = "again"
    /\ args.text = <<"[", "1", ",", "2", ",", "3", "4", "5", "]">>
    /\ _clean_json_string(args.text) = <<"[", "1", ",", "2", "3", "4", "5", "]">>
    /\ result = Returns(<<"[", "1", "2", "3", "4", "5", "]">>)

-----------------------------------------------------------------------------
\* Quick insights (C38)

\* Ideas 0 to 4: idea 0 costs nothing, ideas 0 and 1 tie on roi, ideas 2 and 3
\* tie on roi, and the value-add of ideas 3 and 4 is more than ten thirds of
\* their cost
InsightIdeas == 0..4
MaxIdeas == 4
InsightLists == UNION {[1..n -> InsightIdeas] : n \in 0..MaxIdeas}
InsightArgs ==
    {[op |-> "insights", renovation_ideas |-> [renovation_ideas |-> l, error |-> "none"]] :
        l \in InsightLists}
        \cup {[op |-> "insights", renovation_ideas |-> [error |-> "no ideas"]]}

\* quick_insights = self._format_quick_insights(renovation_ideas, property_data)
QuickInsightsCall ==
    Finish("insights", Returns(FormatQuickInsights(args.renovation_ideas)))

InsightsInit ==
    /\ JobsIdle
    /\ args \in InsightArgs
    /\ result = NotCalled

InsightsNext == QuickInsightsCall

InsightsSpec == InsightsInit /\ [][InsightsNext]_vars

InsightsCalled == args.op = "insights" /\ result # NotCalled

\* The ideas the call was given
GivenIdeas == Get(args.renovation_ideas, "renovation_ideas", << >>)

\* top lists the ideas at the positions pick of the given list: positions are
\* not repeated, roi does not increase along top, equal roi keeps the order of
\* the given list, and no idea left out has a higher roi than one listed or
\* stands before a listed idea of its own roi
PickedInOrder(top, pick) ==
    /\ \A a \in 1..Len(top) : top[a] = GivenIdeas[pick[a]]
    /\ \A a, b \in 1..Len(top) :
           a < b => /\ pick[a] # pick[b]
                    /\ Roi(top[a]) >= Roi(top[b])
                    /\ Roi(top[a]) = Roi(top[b]) => pick[a] < pick[b]
    /\ \A i \in 1..Len(GivenIdeas) :
           (\A a \in 1..Len(top) : pick[a] # i) =>
               \A a \in 1..Len(top) :
                   /\ Roi(GivenIdeas[i]) <= Roi(top[a])
                   /\ Roi(GivenIdeas[i]) = Roi(top[a]) => pick[a] < i

\* The sum of a field over at most three ideas
SumOver(top, Field(_)) ==
    (IF Len(top) >= 1 THEN Field(top[1]) ELSE 0)
        + (IF Len(top) >= 2 THEN Field(top[2]) ELSE 0)
        + (IF Len(top) >= 3 THEN Field(top[3]) ELSE 0)

\* C38: quick insights list at most three ideas, those of highest roi in
\* non-increasing roi order with ties in the order of the given list; the
\* budget and the value-add are the sums of their medium cost and medium
\* value-add; the score is 5 when the budget is 0 and never exceeds 10.
C38_QuickInsights ==
    InsightsCalled =>
        LET insights == result.value
            top == insights.topOpportunities
        IN /\ Len(top) <= 3
           /\ Len(top) = (IF Len(GivenIdeas) < 3 THEN Len(GivenIdeas) ELSE 3)
           /\ \E pick \in [1..Len(top) -> 1..Len(GivenIdeas)] : PickedInOrder(top, pick)
           /\ insights.estimatedBudget = SumOver(top, EstimatedCost)
           /\ insights.potentialValueAdd = SumOver(top, EstimatedValueAdd)
           /\ insights.estimatedBudget = 0 => insights.potentialScore = 50
           /\ insights.potentialScore <= 100

\* Four ideas with a tie on roi between a listed and an unlisted idea, a tie
\* between two listed ideas, and a value-add that would score above 10
C38_Witness ==
    /\ InsightsCalled
    /\ GivenIdeas = <<1, 3, 0, 2>>
    /\ result.value.topOpportunities = <<3, 2, 1>>
    /\ result.value.estimatedBudget = 6000
    /\ result.value.potentialScore = 100

\* Ideas that cost nothing score 5
ZeroBudgetScored ==
    /\ InsightsCalled
    /\ GivenIdeas = <<0, 0>>
    /\ result.value.estimatedBudget = 0
    /\ result.value.potentialScore = 50

=============================================================================
